---- MODULE Spec2Model ----
(***************************************************************************)
(* A model of the meeting-transcriber pipeline:                            *)
(*   - postprocess.py: the hallucination filter and text cleanup           *)
(*   - transcriber.py: EnhancedTranscriber (two-pass ASR, output files)    *)
(*   - groq_backend.py: GroqTranscriber (cloud API request)                *)
(* Texts are sequences of Unicode code points, so that strip, lower,       *)
(* split, the regular expressions and the substring tests are computed     *)
(* character by character, as Python computes them.                        *)
(***************************************************************************)
EXTENDS Integers, Sequences, FiniteSets, TLC

(***************************************************************************)
(* Python str primitives on code-point sequences                           *)
(***************************************************************************)

\* str.isspace() / regex \s for the characters the model uses
IsSpace(c) == c \in {9, 10, 11, 12, 13, 28, 29, 30, 31, 32, 133, 160}

\* regex \w with re.UNICODE: digits, "_", Latin and Cyrillic letters
IsWordChar(c) ==
  \/ c \in 48..57
  \/ c \in 65..90
  \/ c = 95
  \/ c \in 97..122
  \/ c \in 1040..1103
  \/ c \in {1025, 1105}

\* str.lower() of one character (A-Z, А-Я, Ё)
LowerChar(c) ==
  IF c \in 65..90 \/ c \in 1040..1071 THEN c + 32
  ELSE IF c = 1025 THEN 1105
  ELSE c

\* str.lower()
lower(s) == [i \in 1..Len(s) |-> LowerChar(s[i])]

\* str.strip(): the text without its leading and trailing whitespace
strip(s) ==
  LET keep == {i \in 1..Len(s) : ~IsSpace(s[i])}
  IN  IF keep = {} THEN <<>>
      ELSE LET lo == CHOOSE i \in keep : \A j \in keep : i <= j
               hi == CHOOSE i \in keep : \A j \in keep : j <= i
           IN  SubSeq(s, lo, hi)

\* str.split(): the maximal runs of non-whitespace characters, in order
RECURSIVE SplitFrom(_, _, _, _)
SplitFrom(s, i, word, acc) ==
  IF i > Len(s) THEN (IF word = <<>> THEN acc ELSE Append(acc, word))
  ELSE IF IsSpace(s[i])
       THEN SplitFrom(s, i + 1, <<>>, IF word = <<>> THEN acc ELSE Append(acc, word))
       ELSE SplitFrom(s, i + 1, Append(word, s[i]), acc)

split(s) == SplitFrom(s, 1, <<>>, <<>>)

\* sep.join(parts)
RECURSIVE join(_, _)
join(sep, parts) ==
  IF parts = <<>> THEN <<>>
  ELSE IF Len(parts) = 1 THEN parts[1]
  ELSE parts[1] \o sep \o join(sep, Tail(parts))

\* Python's "a in b" for strings: a is a contiguous part of b
Contains(a, b) ==
  \E k \in 0..(Len(b) - Len(a)) : \A i \in 1..Len(a) : b[k + i] = a[i]

(***************************************************************************)
(* Python re: the pattern constructs HALLUCINATION_PATTERNS uses, matched   *)
(* with re.IGNORECASE | re.UNICODE.  Ends(re, s, i) is the set of positions *)
(* j such that re matches s[i..j-1]; search succeeds when some start        *)
(* position has a match.                                                    *)
(***************************************************************************)
Lit(c) == [op |-> "lit", c |-> c]
In(chars) == [op |-> "in", chars |-> chars]
WordChar == [op |-> "word"]
SpaceChar == [op |-> "space"]
AtBeginning == [op |-> "bol"]
AtEnd == [op |-> "eol"]
Cat(items) == [op |-> "cat", items |-> items]
Alt(items) == [op |-> "alt", items |-> items]
Star(item) == [op |-> "star", item |-> item]
Plus(item) == [op |-> "plus", item |-> item]
Opt(item) == [op |-> "opt", item |-> item]
Str(s) == Cat([i \in 1..Len(s) |-> Lit(s[i])])

RECURSIVE Ends(_, _, _), CatEnds(_, _, _, _), AltEnds(_, _, _, _), StarEnds(_, _, _, _)

Ends(re, s, i) ==
  CASE re.op = "lit" ->
         IF i <= Len(s) /\ LowerChar(s[i]) = LowerChar(re.c) THEN {i + 1} ELSE {}
    [] re.op = "in" ->
         IF i <= Len(s) /\ (\E c \in re.chars : LowerChar(s[i]) = LowerChar(c))
         THEN {i + 1} ELSE {}
    [] re.op = "word" -> IF i <= Len(s) /\ IsWordChar(s[i]) THEN {i + 1} ELSE {}
    [] re.op = "space" -> IF i <= Len(s) /\ IsSpace(s[i]) THEN {i + 1} ELSE {}
    \* ^ without re.MULTILINE: the start of the text
    [] re.op = "bol" -> IF i = 1 THEN {i} ELSE {}
    \* $ without re.MULTILINE: the end of the text, or just before a final newline
    [] re.op = "eol" ->
         IF i = Len(s) + 1 \/ (i = Len(s) /\ s[i] = 10) THEN {i} ELSE {}
    [] re.op = "cat" -> CatEnds(re.items, 1, s, {i})
    [] re.op = "alt" -> AltEnds(re.items, 1, s, i)
    [] re.op = "star" -> StarEnds(re.item, s, {i}, {i})
    [] re.op = "plus" ->
         LET first == Ends(re.item, s, i) IN StarEnds(re.item, s, first, first)
    [] re.op = "opt" -> {i} \cup Ends(re.item, s, i)

CatEnds(items, k, s, from) ==
  IF k > Len(items) \/ from = {} THEN from
  ELSE CatEnds(items, k + 1, s, UNION {Ends(items[k], s, j) : j \in from})

AltEnds(items, k, s, i) ==
  IF k > Len(items) THEN {}
  ELSE Ends(items[k], s, i) \cup AltEnds(items, k + 1, s, i)

StarEnds(item, s, frontier, acc) ==
  LET new == UNION {Ends(item, s, j) : j \in frontier} \ acc
  IN  IF new = {} THEN acc ELSE StarEnds(item, s, new, acc \cup new)

\* pattern.search(text)
search(re, s) == \E i \in 1..(Len(s) + 1) : Ends(re, s, i) # {}

(***************************************************************************)
(* postprocess.py                                                          *)
(***************************************************************************)
HALLUCINATION_PATTERNS ==
  <<
    \* r"субтитр\w*\s*(от|by|создан\w*|подготовлен\w*)?\s*(amara|youtube|google)?"
    Cat(<<Str(<<1089, 1091, 1073, 1090, 1080, 1090, 1088>>), Star(WordChar), Star(SpaceChar),
        Opt(Alt(<<Str(<<1086, 1090>>), Str(<<98, 121>>), Cat(<<Str(<<1089, 1086, 1079, 1076,
        1072, 1085>>), Star(WordChar)>>), Cat(<<Str(<<1087, 1086, 1076, 1075, 1086, 1090, 1086,
        1074, 1083, 1077, 1085>>), Star(WordChar)>>)>>)), Star(SpaceChar), Opt(Alt(<<Str(<<97,
        109, 97, 114, 97>>), Str(<<121, 111, 117, 116, 117, 98, 101>>), Str(<<103, 111, 111,
        103, 108, 101>>)>>))>>),
    \* r"subtitl\w*\s*(by|from)?\s*(amara|youtube)?"
    Cat(<<Str(<<115, 117, 98, 116, 105, 116, 108>>), Star(WordChar), Star(SpaceChar),
        Opt(Alt(<<Str(<<98, 121>>), Str(<<102, 114, 111, 109>>)>>)), Star(SpaceChar),
        Opt(Alt(<<Str(<<97, 109, 97, 114, 97>>), Str(<<121, 111, 117, 116, 117, 98,
        101>>)>>))>>),
    \* r"титр\w*\s*(от|by)?"
    Cat(<<Str(<<1090, 1080, 1090, 1088>>), Star(WordChar), Star(SpaceChar),
        Opt(Alt(<<Str(<<1086, 1090>>), Str(<<98, 121>>)>>))>>),
    \* r"продолжение\s+следует"
    Cat(<<Str(<<1087, 1088, 1086, 1076, 1086, 1083, 1078, 1077, 1085, 1080, 1077>>),
        Plus(SpaceChar), Str(<<1089, 1083, 1077, 1076, 1091, 1077, 1090>>)>>),
    \* r"to\s+be\s+continued"
    Cat(<<Str(<<116, 111>>), Plus(SpaceChar), Str(<<98, 101>>), Plus(SpaceChar), Str(<<99, 111,
        110, 116, 105, 110, 117, 101, 100>>)>>),
    \* r"конец\s*(фильма|серии|эпизода)?"
    Cat(<<Str(<<1082, 1086, 1085, 1077, 1094>>), Star(SpaceChar), Opt(Alt(<<Str(<<1092, 1080,
        1083, 1100, 1084, 1072>>), Str(<<1089, 1077, 1088, 1080, 1080>>), Str(<<1101, 1087,
        1080, 1079, 1086, 1076, 1072>>)>>))>>),
    \* r"the\s+end"
    Cat(<<Str(<<116, 104, 101>>), Plus(SpaceChar), Str(<<101, 110, 100>>)>>),
    \* r"подписыва\w+\s*(на)?\s*(канал)?"
    Cat(<<Str(<<1087, 1086, 1076, 1087, 1080, 1089, 1099, 1074, 1072>>), Plus(WordChar),
        Star(SpaceChar), Opt(Str(<<1085, 1072>>)), Star(SpaceChar), Opt(Str(<<1082, 1072, 1085,
        1072, 1083>>))>>),
    \* r"(ставь\w*|поставь\w*)\s*(лайк\w*|палец)"
    Cat(<<Alt(<<Cat(<<Str(<<1089, 1090, 1072, 1074, 1100>>), Star(WordChar)>>),
        Cat(<<Str(<<1087, 1086, 1089, 1090, 1072, 1074, 1100>>), Star(WordChar)>>)>>),
        Star(SpaceChar), Alt(<<Cat(<<Str(<<1083, 1072, 1081, 1082>>), Star(WordChar)>>),
        Str(<<1087, 1072, 1083, 1077, 1094>>)>>)>>),
    \* r"subscribe\s*(to)?\s*(the)?\s*(channel)?"
    Cat(<<Str(<<115, 117, 98, 115, 99, 114, 105, 98, 101>>), Star(SpaceChar), Opt(Str(<<116,
        111>>)), Star(SpaceChar), Opt(Str(<<116, 104, 101>>)), Star(SpaceChar), Opt(Str(<<99,
        104, 97, 110, 110, 101, 108>>))>>),
    \* r"like\s*(and)?\s*subscribe"
    Cat(<<Str(<<108, 105, 107, 101>>), Star(SpaceChar), Opt(Str(<<97, 110, 100>>)),
        Star(SpaceChar), Str(<<115, 117, 98, 115, 99, 114, 105, 98, 101>>)>>),
    \* r"не\s+забуд\w+\s+(подписаться|лайк)"
    Cat(<<Str(<<1085, 1077>>), Plus(SpaceChar), Str(<<1079, 1072, 1073, 1091, 1076>>),
        Plus(WordChar), Plus(SpaceChar), Alt(<<Str(<<1087, 1086, 1076, 1087, 1080, 1089, 1072,
        1090, 1100, 1089, 1103>>), Str(<<1083, 1072, 1081, 1082>>)>>)>>),
    \* r"спасибо\s+(за\s+)?(просмотр|внимание|подписку)"
    Cat(<<Str(<<1089, 1087, 1072, 1089, 1080, 1073, 1086>>), Plus(SpaceChar),
        Opt(Cat(<<Str(<<1079, 1072>>), Plus(SpaceChar)>>)), Alt(<<Str(<<1087, 1088, 1086, 1089,
        1084, 1086, 1090, 1088>>), Str(<<1074, 1085, 1080, 1084, 1072, 1085, 1080, 1077>>),
        Str(<<1087, 1086, 1076, 1087, 1080, 1089, 1082, 1091>>)>>)>>),
    \* r"thanks?\s+(for\s+)?(watching|viewing)"
    Cat(<<Str(<<116, 104, 97, 110, 107>>), Opt(Lit(115)), Plus(SpaceChar), Opt(Cat(<<Str(<<102,
        111, 114>>), Plus(SpaceChar)>>)), Alt(<<Str(<<119, 97, 116, 99, 104, 105, 110, 103>>),
        Str(<<118, 105, 101, 119, 105, 110, 103>>)>>)>>),
    \* r"thank\s+you\s+(for\s+)?(watching|viewing)"
    Cat(<<Str(<<116, 104, 97, 110, 107>>), Plus(SpaceChar), Str(<<121, 111, 117>>),
        Plus(SpaceChar), Opt(Cat(<<Str(<<102, 111, 114>>), Plus(SpaceChar)>>)), Alt(<<Str(<<119,
        97, 116, 99, 104, 105, 110, 103>>), Str(<<118, 105, 101, 119, 105, 110, 103>>)>>)>>),
    \* r"^\s*♪+\s*$"
    Cat(<<AtBeginning, Star(SpaceChar), Plus(Lit(9834)), Star(SpaceChar), AtEnd>>),
    \* r"^\s*\[музыка\]\s*$"
    Cat(<<AtBeginning, Star(SpaceChar), Str(<<91, 1084, 1091, 1079, 1099, 1082, 1072, 93>>),
        Star(SpaceChar), AtEnd>>),
    \* r"^\s*\[music\]\s*$"
    Cat(<<AtBeginning, Star(SpaceChar), Str(<<91, 109, 117, 115, 105, 99, 93>>),
        Star(SpaceChar), AtEnd>>),
    \* r"^\s*\(музыка\)\s*$"
    Cat(<<AtBeginning, Star(SpaceChar), Str(<<40, 1084, 1091, 1079, 1099, 1082, 1072, 41>>),
        Star(SpaceChar), AtEnd>>),
    \* r"^\s*музыка\s*$"
    Cat(<<AtBeginning, Star(SpaceChar), Str(<<1084, 1091, 1079, 1099, 1082, 1072>>),
        Star(SpaceChar), AtEnd>>),
    \* r"^\s*\.\.\.\s*$"
    Cat(<<AtBeginning, Star(SpaceChar), Str(<<46, 46, 46>>), Star(SpaceChar), AtEnd>>),
    \* r"^\s*…\s*$"
    Cat(<<AtBeginning, Star(SpaceChar), Lit(8230), Star(SpaceChar), AtEnd>>),
    \* r"www\.\w+\.\w+"
    Cat(<<Str(<<119, 119, 119, 46>>), Plus(WordChar), Lit(46), Plus(WordChar)>>),
    \* r"^\s*[.。,،、]+\s*$"
    Cat(<<AtBeginning, Star(SpaceChar), Plus(In({46, 12290, 44, 1548, 12289})), Star(SpaceChar),
        AtEnd>>),
    \* r"^\s*\?\s*$"
    Cat(<<AtBeginning, Star(SpaceChar), Lit(63), Star(SpaceChar), AtEnd>>),
    \* r"^\s*!\s*$"
    Cat(<<AtBeginning, Star(SpaceChar), Lit(33), Star(SpaceChar), AtEnd>>)
  >>

\* COMPILED_PATTERNS: some pattern is found in the text
MatchesPattern(text) ==
  \E p \in 1..Len(HALLUCINATION_PATTERNS) : search(HALLUCINATION_PATTERNS[p], text)

\* the words compared without w.lower()
is_hallucination_case_sensitive(text) ==
  IF strip(text) = <<>> THEN TRUE
  ELSE LET text_clean == strip(text)
           words == split(text_clean)
           unique_words == {words[i] : i \in 1..Len(words)}
       IN  \/ MatchesPattern(text_clean)
           \/ Len(words) >= 3 /\ Cardinality(unique_words) = 1

\* is_hallucination(text)
is_hallucination(text) ==
  IF strip(text) = <<>> THEN TRUE
  ELSE LET text_clean == strip(text)
           words == split(text_clean)
           unique_words == {lower(words[i]) : i \in 1..Len(words)}
       IN  \/ MatchesPattern(text_clean)
           \/ Len(words) >= 3 /\ Cardinality(unique_words) = 1

\* shorter / longer >= threshold for threshold = 0.9, on the two lengths
RatioAtLeastThreshold(shorter, longer) == 10 * shorter >= 9 * longer

\* without the "len(current_clean) < 5" return
is_repeated_segment_no_min_length(current_text, previous_texts) ==
  IF current_text = <<>> \/ previous_texts = <<>> THEN FALSE
  ELSE LET current_clean == lower(strip(current_text))
       IN  \E k \in 1..Len(previous_texts) :
             LET prev_clean == lower(strip(previous_texts[k]))
                 shorter == IF Len(current_clean) < Len(prev_clean)
                            THEN Len(current_clean) ELSE Len(prev_clean)
                 longer == IF Len(current_clean) < Len(prev_clean)
                           THEN Len(prev_clean) ELSE Len(current_clean)
             IN  /\ prev_clean # <<>>
                 /\ \/ current_clean = prev_clean
                    \/ /\ \/ Contains(current_clean, prev_clean)
                          \/ Contains(prev_clean, current_clean)
                       /\ RatioAtLeastThreshold(shorter, longer)

\* is_repeated_segment(current_text, previous_texts), threshold = 0.9
is_repeated_segment(current_text, previous_texts) ==
  IF current_text = <<>> \/ previous_texts = <<>> THEN FALSE
  ELSE LET current_clean == lower(strip(current_text))
       IN  IF Len(current_clean) < 5 THEN FALSE
           ELSE \E k \in 1..Len(previous_texts) :
                  LET prev_clean == lower(strip(previous_texts[k]))
                      shorter == IF Len(current_clean) < Len(prev_clean)
                                 THEN Len(current_clean) ELSE Len(prev_clean)
                      longer == IF Len(current_clean) < Len(prev_clean)
                                THEN Len(prev_clean) ELSE Len(current_clean)
                  IN  /\ prev_clean # <<>>
                      /\ \/ current_clean = prev_clean
                         \/ /\ \/ Contains(current_clean, prev_clean)
                               \/ Contains(prev_clean, current_clean)
                            /\ RatioAtLeastThreshold(shorter, longer)

\* s without the characters at the positions outside keep
RECURSIVE KeepAt(_, _, _)
KeepAt(s, keep, i) ==
  IF i > Len(s) THEN <<>>
  ELSE (IF i \in keep THEN <<s[i]>> ELSE <<>>) \o KeepAt(s, keep, i + 1)

\* re.sub(r'\s+', ' ', text)
CollapseSpaces(s) ==
  KeepAt([i \in 1..Len(s) |-> IF IsSpace(s[i]) THEN 32 ELSE s[i]],
         {i \in 1..Len(s) : ~(IsSpace(s[i]) /\ i > 1 /\ IsSpace(s[i - 1]))}, 1)

\* re.sub(r'\s+([.,!?;:])', r'\1', text)
RemoveSpaceBeforePunct(s) ==
  KeepAt(s, {i \in 1..Len(s) :
               ~(/\ IsSpace(s[i])
                 /\ \E j \in (i + 1)..Len(s) :
                      /\ s[j] \in {46, 44, 33, 63, 59, 58}
                      /\ \A k \in i..(j - 1) : IsSpace(s[k]))}, 1)

\* re.sub(r'([.,!?])\1+', r'\1', text)
CollapsePunct(s) ==
  KeepAt(s, {i \in 1..Len(s) :
               ~(i > 1 /\ s[i] \in {46, 44, 33, 63} /\ s[i - 1] = s[i])}, 1)

\* clean_text(text)
clean_text(text) ==
  IF text = <<>> THEN text
  ELSE strip(CollapsePunct(RemoveSpaceBeforePunct(CollapseSpaces(text))))

\* repeat_window, the default of filter_hallucinations
repeat_window == 3

\* the state of the loop of filter_hallucinations before its first segment
FilterStart == [filtered |-> <<>>, removed_count |-> 0, previous_texts |-> <<>>]

\* what filter_hallucinations decides for one segment: "hallucination", "repeat" or "kept"
FilterDecision(st, seg, check_repeats) ==
  LET text == strip(seg.text)
  IN  IF is_hallucination(text) THEN "hallucination"
      ELSE IF check_repeats /\ is_repeated_segment(text, st.previous_texts) THEN "repeat"
      ELSE "kept"

\* the window of previous texts updated for removed segments too
filter_step_window_all(st, seg, check_repeats) ==
  LET appended == Append(st.previous_texts, strip(seg.text))
      window == IF Len(appended) > repeat_window THEN Tail(appended) ELSE appended
  IN  IF FilterDecision(st, seg, check_repeats) # "kept"
      THEN [st EXCEPT !.removed_count = @ + 1, !.previous_texts = window]
      ELSE [st EXCEPT !.filtered = Append(@, seg), !.previous_texts = window]

\* a kept segment put in front of filtered
filter_step_prepend(st, seg, check_repeats) ==
  IF FilterDecision(st, seg, check_repeats) # "kept"
  THEN [st EXCEPT !.removed_count = @ + 1]
  ELSE LET appended == Append(st.previous_texts, strip(seg.text))
       IN  [st EXCEPT !.filtered = <<seg>> \o @,
                      !.previous_texts = IF Len(appended) > repeat_window
                                         THEN Tail(appended) ELSE appended]

\* the window never popped
filter_step_no_evict(st, seg, check_repeats) ==
  IF FilterDecision(st, seg, check_repeats) # "kept"
  THEN [st EXCEPT !.removed_count = @ + 1]
  ELSE [st EXCEPT !.filtered = Append(@, seg),
                  !.previous_texts = Append(@, strip(seg.text))]

\* one iteration of the loop of filter_hallucinations
filter_step(st, seg, check_repeats) ==
  IF FilterDecision(st, seg, check_repeats) # "kept"
  THEN [st EXCEPT !.removed_count = @ + 1]
  ELSE LET appended == Append(st.previous_texts, strip(seg.text))
       IN  [st EXCEPT !.filtered = Append(@, seg),
                      !.previous_texts = IF Len(appended) > repeat_window
                                         THEN Tail(appended) ELSE appended]

RECURSIVE FilterLoop(_, _, _, _)
FilterLoop(st, segments, i, check_repeats) ==
  IF i > Len(segments) THEN st
  ELSE FilterLoop(filter_step(st, segments[i], check_repeats), segments, i + 1, check_repeats)

\* filter_hallucinations(segments, check_repeats)
filter_hallucinations(segments, check_repeats) ==
  IF segments = <<>> THEN segments
  ELSE FilterLoop(FilterStart, segments, 1, check_repeats).filtered

\* the texts of the segments that are not blank, stripped, in order
RECURSIVE NonBlankTexts(_)
NonBlankTexts(segments) ==
  IF segments = <<>> THEN <<>>
  ELSE (IF strip(segments[1].text) # <<>> THEN <<strip(segments[1].text)>> ELSE <<>>)
       \o NonBlankTexts(Tail(segments))

\* postprocess_transcription(result, filter_enabled); a result is None (<<>>) or <<dict>>
postprocess_transcription(result, filter_enabled) ==
  IF result = <<>> THEN result
  ELSE IF filter_enabled /\ result[1].segments # <<>>
  THEN LET filtered == filter_hallucinations(result[1].segments, TRUE)
           segments == [i \in 1..Len(filtered) |->
                          [filtered[i] EXCEPT !.text = clean_text(@)]]
           full_text == clean_text(join(<<32>>, NonBlankTexts(segments)))
       IN  <<[result[1] EXCEPT !.segments = segments, !.text = full_text]>>
  ELSE result

(***************************************************************************)
(* The texts the model feeds to the filter and lets the engines return      *)
(***************************************************************************)
\* ""
TxtEmpty == <<>>
\* " "
TxtBlank == <<32>>
\* "Субтитры от Amara.org"
TxtAmara == <<1057, 1091, 1073, 1090, 1080, 1090, 1088, 1099, 32, 1086, 1090, 32, 65, 109, 97, 114, 97, 46, 111, 114, 103>>
\* "привет привет привет"
TxtPrivet3 == <<1087, 1088, 1080, 1074, 1077, 1090, 32, 1087, 1088, 1080, 1074, 1077, 1090, 32, 1087, 1088, 1080, 1074, 1077, 1090>>
\* "как дела"
TxtKakDela == <<1082, 1072, 1082, 32, 1076, 1077, 1083, 1072>>
\* "!!"
TxtBang2 == <<33, 33>>
\* "да"
TxtDa == <<1076, 1072>>
\* "Да да да"
TxtDaDaDa == <<1044, 1072, 32, 1076, 1072, 32, 1076, 1072>>
\* "привет , мир"
TxtPrivetMirSp == <<1087, 1088, 1080, 1074, 1077, 1090, 32, 44, 32, 1084, 1080, 1088>>
\* "привет, мир"
TxtPrivetMir == <<1087, 1088, 1080, 1074, 1077, 1090, 44, 32, 1084, 1080, 1088>>
\* "hello world"
TxtHello == <<104, 101, 108, 108, 111, 32, 119, 111, 114, 108, 100>>
\* "Hello World!"
TxtHelloBang == <<72, 101, 108, 108, 111, 32, 87, 111, 114, 108, 100, 33>>
\* " да"
TxtSpDa == <<32, 1076, 1072>>
\* "как дела ok"
TxtKakDelaOk == <<1082, 1072, 1082, 32, 1076, 1077, 1083, 1072, 32, 111, 107>>

(***************************************************************************)
(* Bounds                                                                   *)
(***************************************************************************)
\* files in one transcribe_files call
MaxFiles == 2
\* segments an ASR engine returns in one pass
MaxEngineSegs == 2
\* model loads counted on one transcriber
MaxLoads == 2

SeqsUpTo(S, n) == UNION {[1..k -> S] : k \in 0..n}

\* Python None, and a value that is not None
None == <<>>
Some(v) == <<v>>

VARIABLES
  \* Config and the environment
  ASR_BACKEND, FORCE_RU, ASR_FALLBACK, HAS_WHISPERX,
  \* EnhancedTranscriber, its constructor argument, and its WhisperXTranscriber
  diarize_arg, backend, diarize, model_loaded, hf_token,
  \* the models loaded so far
  loads,
  \* transcribe_files / _transcribe_single
  pc, files, file_idx, success, fs, result, exc, outcome,
  \* the engine invocations made for the current file, and the files written for it
  attempts, outputs,
  \* GroqTranscriber and its transcribe call
  api_key, g_pc, calls, audio, audio_exists, upload, should_cleanup, temp_file, response,
  g_exc, g_result, requests, seen_failures,
  \* filter_hallucinations and postprocess_transcription
  f_pc, input, check_repeats, idx, loop, decisions, refiltered, filter_enabled, post1, post2,
  \* one call of a function of the package: its name, arguments and value
  call,
  \* MeetingRecorder.record: its position, the ffmpeg process, the monitor, the file
  rec,
  \* AudioLevelMonitor: its fields, its threads, the call under way and the last one over
  mon,
  \* WhisperXTranscriber: the alignment cache and the transcribe call under way
  wx

cfgVars == <<ASR_BACKEND, FORCE_RU, ASR_FALLBACK, HAS_WHISPERX>>
orchVars == <<diarize_arg, backend, diarize, model_loaded, hf_token, loads, pc,
              files, file_idx, success, fs, result, exc, outcome, attempts, outputs>>
groqVars == <<api_key, g_pc, calls, audio, audio_exists, upload, should_cleanup, temp_file,
              response, g_exc, g_result, requests, seen_failures>>
ppVars == <<f_pc, input, check_repeats, idx, loop, decisions, refiltered, filter_enabled,
            post1, post2>>
fnVars == <<call>>
otherVars == <<fnVars, rec, mon, wx>>
vars == <<cfgVars, orchVars, groqVars, ppVars, otherVars>>

(***************************************************************************)
(* utils.py: format_timestamp_srt, on IEEE 754 doubles                      *)
(***************************************************************************)
\* A fraction of a double is [limbs, width]: width bits after the binary point, held
\* ten bits to a limb, the last limb holding what is left.

\* the number of bits of a natural number
BitLen(n) == CHOOSE b \in 0..30 : n < 2 ^ b /\ (b = 0 \/ n >= 2 ^ (b - 1))

\* the bits of limb m of a fraction of width bits
LimbWidth(width, m) == IF 10 * m <= width THEN 10 ELSE width - 10 * (m - 1)

NumLimbs(width) == (width + 9) \div 10

\* 2^i modulo 1000, i up to 79
Pow2Mod(i) == (((576 ^ (i \div 20)) % 1000) * ((2 ^ (i % 20)) % 1000)) % 1000

\* what is left of rem/1000 after i bits of its binary expansion, times 1000
Remainder(rem, i) == (rem * Pow2Mod(i)) % 1000

\* the first width bits of the binary expansion of rem/1000
Expansion(rem, width) ==
  [limbs |-> [m \in 1..NumLimbs(width) |->
                (Remainder(rem, 10 * (m - 1)) * (2 ^ LimbWidth(width, m))) \div 1000],
   width |-> width]

\* bit i of a fraction, the first after the point being bit 1
Bit(x, i) ==
  LET m == ((i - 1) \div 10) + 1
  IN  (x.limbs[m] \div (2 ^ (LimbWidth(x.width, m) - 1 - ((i - 1) % 10)))) % 2

\* the zero bits before the first one bit of a fraction
LeadingZeros(x) == Cardinality({i \in 1..x.width : \A j \in 1..i : Bit(x, j) = 0})

\* a fraction plus one unit in its last place, and the carry out of it
Increment(x) ==
  LET full(m) == x.limbs[m] = (2 ^ LimbWidth(x.width, m)) - 1
      carried(m) == \A k \in (m + 1)..Len(x.limbs) : full(k)
  IN  [frac |-> [x EXCEPT !.limbs = [m \in 1..Len(x.limbs) |->
                     IF carried(m)
                     THEN (x.limbs[m] + 1) % (2 ^ LimbWidth(x.width, m))
                     ELSE x.limbs[m]]],
       carry |-> IF \A k \in 1..Len(x.limbs) : full(k) THEN 1 ELSE 0]

\* round to nearest, ties to even: the kept bits are followed by a guard bit and by
\* something more (sticky) or nothing
RoundsUp(last, guard, sticky) == guard = 1 /\ (sticky \/ last = 1)

\* the double nearest to ms/1000, as its integer part and its fraction: what a time
\* of whole milliseconds is when it is given in seconds as a float (53 bits in all)
ToDouble(ms) ==
  LET n == ms \div 1000
      r == ms % 1000
      kept == IF n >= 1 THEN 53 - BitLen(n)
              ELSE IF r = 0 THEN 0
              ELSE LeadingZeros(Expansion(r, 10)) + 53
      e == Expansion(r, kept)
      left == Remainder(r, kept)
      guard == IF 2 * left >= 1000 THEN 1 ELSE 0
      sticky == 2 * left - 1000 * guard # 0
      last == IF kept > 0 THEN Bit(e, kept) ELSE n % 2
      inc == Increment(e)
  IN  IF RoundsUp(last, guard, sticky)
      THEN [int |-> n + inc.carry, frac |-> inc.frac]
      ELSE [int |-> n, frac |-> e]

\* a fraction times 1000, exactly: from the last limb on, with a carry that ends as
\* the integer part of the product
RECURSIVE TimesThousand(_, _, _)
TimesThousand(x, m, carry) ==
  IF m = 0 THEN [int |-> carry, frac |-> x]
  ELSE LET t == 1000 * x.limbs[m] + carry
           w == 2 ^ LimbWidth(x.width, m)
       IN  TimesThousand([x EXCEPT !.limbs[m] = t % w], m - 1, t \div w)

\* int(x * 1000) for the fraction x of a double: the exact product rounded to a double
\* (to nearest, ties to even), then truncated
int_times_1000(x) ==
  LET p == TimesThousand(x, Len(x.limbs), 0)
      f == p.frac
      kept == IF p.int >= 1 THEN 53 - BitLen(p.int) ELSE LeadingZeros(f) + 53
  IN  IF kept >= f.width THEN p.int
      ELSE IF /\ RoundsUp(Bit(f, kept), Bit(f, kept + 1),
                          \E i \in (kept + 2)..f.width : Bit(f, i) = 1)
              /\ \A i \in 1..kept : Bit(f, i) = 1
           THEN p.int + 1
           ELSE p.int

\* the decimal digits of a natural number, as characters
RECURSIVE Decimal(_)
Decimal(n) == IF n < 10 THEN <<48 + n>> ELSE Append(Decimal(n \div 10), 48 + (n % 10))

\* f"{n:0{width}d}"
RECURSIVE ZeroPadded(_, _)
ZeroPadded(digits, width) ==
  IF Len(digits) >= width THEN digits ELSE ZeroPadded(<<48>> \o digits, width)

\* format_timestamp_srt(seconds), seconds being the double of a time of ms milliseconds
format_timestamp_srt(ms) ==
  LET seconds == ToDouble(ms)
      hours == seconds.int \div 3600
      remainder == seconds.int % 3600
      minutes == remainder \div 60
      secs == remainder % 60
      millis == int_times_1000(seconds.frac)
  IN  ZeroPadded(Decimal(hours), 2) \o <<58>> \o ZeroPadded(Decimal(minutes), 2) \o <<58>>
        \o ZeroPadded(Decimal(secs), 2) \o <<44>> \o ZeroPadded(Decimal(millis), 3)

(***************************************************************************)
(* transcriber.py, whisperx.py: the text grouped by speaker                 *)
(***************************************************************************)
\* the characters of a speaker label
LabelText(label) ==
  CASE label = "A" -> <<65>>
    [] label = "B" -> <<66>>
    [] label = "SPEAKER" -> <<83, 80, 69, 65, 75, 69, 82>>
    [] label = "UNKNOWN" -> <<85, 78, 75, 78, 79, 87, 78>>
    [] label = "SPEAKER_00" -> <<83, 80, 69, 65, 75, 69, 82, 95, 48, 48>>

\* _format_time_short, _format_time: minutes and seconds of whole seconds
format_time_short(seconds) ==
  ZeroPadded(Decimal(seconds \div 60), 2) \o <<58>> \o ZeroPadded(Decimal(seconds % 60), 2)

\* seg.get("speaker", default); a segment without the key has speaker ""
SpeakerOf(seg, default) == IF seg.speaker = "" THEN default ELSE seg.speaker

\* the loop before any segment
GroupStart ==
  [lines |-> <<>>, current_speaker |-> None, current_text |-> <<>>, current_start |-> 0]

\* the group under way, as the block it makes when it is closed
CloseGroup(st) ==
  IF st.current_text # <<>>
  THEN <<[ts |-> format_time_short(st.current_start), speaker |-> st.current_speaker[1],
          text |-> join(<<32>>, st.current_text)]>>
  ELSE <<>>

\* the loop body without "if not text: continue"
GroupStep_no_skip(st, seg, default) ==
  LET speaker == SpeakerOf(seg, default)
      text == strip(seg.text)
  IN  IF Some(speaker) = st.current_speaker
      THEN [st EXCEPT !.current_text = Append(@, text)]
      ELSE [lines |-> st.lines \o CloseGroup(st), current_speaker |-> Some(speaker),
            current_text |-> <<text>>, current_start |-> seg.start]

\* the loop body of _save_txt_diarized and of format_segments_with_speakers
GroupStep(st, seg, default) ==
  LET speaker == SpeakerOf(seg, default)
      text == strip(seg.text)
  IN  IF text = <<>> THEN st
      ELSE IF Some(speaker) = st.current_speaker
      THEN [st EXCEPT !.current_text = Append(@, text)]
      ELSE [lines |-> st.lines \o CloseGroup(st), current_speaker |-> Some(speaker),
            current_text |-> <<text>>, current_start |-> seg.start]

RECURSIVE GroupLoop(_, _, _, _)
GroupLoop(st, segments, i, default) ==
  IF i > Len(segments) THEN st
  ELSE GroupLoop(GroupStep(st, segments[i], default), segments, i + 1, default)

\* the blocks of the segments: the loop, then the last group
GroupBlocks(segments, default) ==
  LET st == GroupLoop(GroupStart, segments, 1, default)
  IN  st.lines \o CloseGroup(st)

\* a block as its text: "[ts] speaker:" sep combined
BlockText(block, sep) ==
  <<91>> \o block.ts \o <<93, 32>> \o LabelText(block.speaker) \o <<58>> \o sep \o block.text

\* "\n\n".join(lines)
BlocksText(blocks, sep) ==
  join(<<10, 10>>, [i \in 1..Len(blocks) |-> BlockText(blocks[i], sep)])

\* _save_txt_diarized: the blocks and the text written to the file
save_txt_diarized(segments) ==
  LET blocks == GroupBlocks(segments, "SPEAKER")
  IN  [blocks |-> blocks, content |-> BlocksText(blocks, <<10>>)]

\* format_segments_with_speakers, include_timestamps=True
format_segments_with_speakers(segments) ==
  LET blocks == GroupBlocks(segments, "UNKNOWN")
  IN  [blocks |-> blocks, content |-> BlocksText(blocks, <<32>>)]

(***************************************************************************)
(* transcriber.py: EnhancedTranscriber                                      *)
(***************************************************************************)
Backends == {"faster", "whisper", "whisperx", "groq", "auto"}

\* __init__: self.backend after the diarization switch
InitBackend(asr_backend, requested, has_whisperx) ==
  IF requested /\ asr_backend # "whisperx" /\ has_whisperx THEN "whisperx"
  ELSE asr_backend

\* diarization left on whatever is installed
InitDiarize_kept(asr_backend, requested, has_whisperx) == requested

\* __init__: self.diarize after the diarization switch
InitDiarize(asr_backend, requested, has_whisperx) ==
  IF requested /\ asr_backend # "whisperx" /\ ~has_whisperx THEN FALSE
  ELSE requested

\* the files of the current audio: the recording, and the safe WAV made of it
NoFiles == [audio |-> "absent", safe |-> "absent"]

\* the state before any file of a transcribe_files call
NoFile ==
  /\ file_idx = 0 /\ success = 0 /\ files = 0
  /\ fs = NoFiles /\ result = None /\ exc = "none" /\ outcome = "none"
  /\ attempts = <<>> /\ outputs = <<>>

\* the state after EnhancedTranscriber(diarize=...) under some configuration
OrchInit ==
  /\ ASR_BACKEND \in Backends
  /\ FORCE_RU \in BOOLEAN
  /\ ASR_FALLBACK \in BOOLEAN
  /\ HAS_WHISPERX \in BOOLEAN
  /\ diarize_arg \in BOOLEAN
  /\ backend = InitBackend(ASR_BACKEND, diarize_arg, HAS_WHISPERX)
  /\ diarize = InitDiarize(ASR_BACKEND, diarize_arg, HAS_WHISPERX)
  /\ model_loaded = FALSE /\ hf_token = FALSE
  /\ loads = 0
  /\ pc = "init"
  /\ NoFile

\* language = 'ru' if Config.FORCE_RU else None
Language == IF FORCE_RU THEN "ru" ELSE "None"

\* language or 'ru', the language of the fallback pass
FallbackLanguage == IF Language = "None" THEN "ru" ELSE Language

\* the VAD filter the engine runs with: model.transcribe of faster-whisper is given
\* vad_filter=use_vad, that of openai-whisper is given nothing of use_vad
EngineVad(engine, use_vad) == engine = "faster-whisper" /\ use_vad

\* one engine invocation: the arguments of the call (vad is use_vad), the VAD filter
\* the engine ran with, how its diarization stage went ("none" for an engine without
\* one) and what it returned (None: it raised)
Attempt(engine, vad, language, diarization, returned) ==
  [engine |-> engine, vad |-> vad, vad_filter |-> EngineVad(engine, vad),
   language |-> language, diarization |-> diarization, returned |-> returned]

\* the engine the else-branches of _load_model and _run_asr_once use
Engine == IF backend = "faster" THEN "faster-whisper" ELSE "openai-whisper"

\* the segments an engine returns, from their texts
MkSegments(texts, speaker) ==
  [i \in 1..Len(texts) |-> [start |-> i, text |-> texts[i], speaker |-> speaker]]

EngineTexts == {TxtBlank, TxtSpDa, TxtAmara}
EngineOutputs == SeqsUpTo(EngineTexts, MaxEngineSegs)

\* the joined text not stripped
AsrResult_no_strip(texts) ==
  [text |-> join(<<32>>, texts),
   segments |-> MkSegments(texts, ""),
   speakers |-> <<>>]

\* _run_asr_once: the dict it returns for the texts the engine produced
AsrResult(texts) ==
  [text |-> strip(join(<<32>>, texts)),
   segments |-> MkSegments(texts, ""),
   speakers |-> <<>>]

\* WhisperXTranscriber.transcribe: the dict it returns
WhisperxResult(texts, speaker) ==
  [text |-> join(<<32>>, [i \in 1..Len(texts) |-> strip(texts[i])]),
   segments |-> MkSegments(texts, speaker),
   speakers |-> IF speaker # "" /\ texts # <<>> THEN <<speaker>> ELSE <<>>]

\* WhisperXTranscriber.transcribe, step 3: how the diarization stage goes
DiarizationStage(requested, token, stage_ok) ==
  IF ~requested THEN "off"
  ELSE IF ~token THEN "no_token"
  ELSE IF stage_ok THEN "done" ELSE "failed"

\* a failed diarization stage raising to the caller
DiarizationPropagates_failed(stage) == stage = "failed"

\* step 3 is wrapped in "except Exception", logged: nothing of it reaches the caller
DiarizationPropagates(stage) == FALSE

\* the first pass taken as empty when its text is blank
NeedsVadFallback_blank_text(r) == r = None \/ strip(r[1].text) = <<>>

\* "if not result or not result.get('segments')": the first pass is empty
NeedsVadFallback(r) == r = None \/ r[1].segments = <<>>

\* only a missing result taken as no transcription
NoTranscription_none_only(r) == r = None

\* a result without segments taken as no transcription
NoTranscription_no_segments(r) == r = None \/ r[1].segments = <<>>

\* "if not result or not result.get('text', '').strip()"
NoTranscription(r) == r = None \/ strip(r[1].text) = <<>>

\* the speakers never looked at
HasSpeakers_never(r) == FALSE

\* has_speakers of _transcribe_single
HasSpeakers(r) ==
  r.speakers # <<>> \/ \E i \in 1..Len(r.segments) : r.segments[i].speaker # ""

\* the safe WAV written over the recording itself
SafePath_same(audio_path) == audio_path

\* audio_file.with_suffix(".safe%H%M%S.wav"): another file than audio_file
SafePath(audio_path) == "safe"

\* the model reloaded whatever the flag says
AlreadyLoaded_never(flag) == FALSE

\* _load_model: "if self.model_loaded: return"
AlreadyLoaded(flag) == flag

\* transcribe_files(files): the call starts
TranscribeFiles ==
  /\ pc \in {"init", "done", "raised"}
  /\ \E n \in 0..MaxFiles : files' = n
  /\ pc' = "load_model"
  /\ file_idx' = 0 /\ success' = 0 /\ fs' = NoFiles /\ result' = None
  /\ exc' = "none" /\ outcome' = "none" /\ attempts' = <<>> /\ outputs' = <<>>
  /\ UNCHANGED <<otherVars, groqVars, ppVars, cfgVars, diarize_arg, backend, diarize, model_loaded,
                 hf_token, loads>>

\* _load_model; for whisperx a WhisperXTranscriber is made, with Config.HF_TOKEN
LoadModel ==
  /\ pc = "load_model"
  /\ IF AlreadyLoaded(model_loaded)
     THEN pc' = "next_file" /\ UNCHANGED <<model_loaded, exc, hf_token, loads>>
     ELSE IF backend = "whisperx" /\ ~HAS_WHISPERX
     THEN pc' = "raised" /\ exc' = "ImportError"
          /\ UNCHANGED <<model_loaded, hf_token, loads>>
     ELSE \E loaded \in BOOLEAN, token \in BOOLEAN :
            /\ loads < MaxLoads
            /\ hf_token' = (backend = "whisperx" /\ token)
            /\ IF loaded
               THEN pc' = "next_file" /\ model_loaded' = TRUE /\ loads' = loads + 1
                    /\ UNCHANGED exc
               ELSE pc' = "raised" /\ exc' = "LoadError" /\ UNCHANGED <<model_loaded, loads>>
  /\ UNCHANGED <<otherVars, groqVars, ppVars, cfgVars, diarize_arg, backend, diarize, files,
                 file_idx, success, fs, result, outcome, attempts, outputs>>

\* the for loop of transcribe_files: the next file, which exists or not, or the summary
NextFile ==
  /\ pc = "next_file"
  /\ IF file_idx < files
     THEN /\ file_idx' = file_idx + 1
          /\ pc' = "check_file"
          /\ \E exists \in BOOLEAN :
               fs' = [audio |-> IF exists THEN "recording" ELSE "absent", safe |-> "absent"]
          /\ result' = None /\ outcome' = "none" /\ attempts' = <<>> /\ outputs' = <<>>
     ELSE /\ pc' = "done"
          /\ UNCHANGED <<file_idx, fs, result, outcome, attempts, outputs>>
  /\ UNCHANGED <<otherVars, groqVars, ppVars, cfgVars, diarize_arg, backend, diarize, model_loaded,
                 hf_token, loads, files, success, exc>>

\* _transcribe_single: audio_file.exists() and ffprobe_ok(audio_file)
CheckFile ==
  /\ pc = "check_file"
  /\ \E probe_ok \in BOOLEAN :
       IF fs.audio = "absent" THEN outcome' = "not_found" /\ pc' = "return"
       ELSE IF ~probe_ok THEN outcome' = "corrupt" /\ pc' = "return"
       ELSE outcome' = "none" /\ pc' = "convert"
  /\ UNCHANGED <<otherVars, groqVars, ppVars, cfgVars, diarize_arg, backend, diarize, model_loaded,
                 hf_token, loads, files, file_idx, success, fs, result, exc,
                 attempts, outputs>>

\* _transcribe_single: ffmpeg -y writes the safe WAV; a failed ffmpeg may leave a file
Convert ==
  /\ pc = "convert"
  /\ \E converted \in BOOLEAN, written \in BOOLEAN :
       IF converted
       THEN /\ fs' = [fs EXCEPT ![SafePath("audio")] = "wav"]
            /\ pc' = "asr" /\ UNCHANGED outcome
       ELSE /\ fs' = IF written THEN [fs EXCEPT ![SafePath("audio")] = "partial"] ELSE fs
            /\ outcome' = "conversion_failed" /\ pc' = "return"
  /\ UNCHANGED <<otherVars, groqVars, ppVars, cfgVars, diarize_arg, backend, diarize, model_loaded,
                 hf_token, loads, files, file_idx, success, result, exc, attempts,
                 outputs>>

\* _run_whisperx: WhisperXTranscriber.transcribe; its ASR and alignment steps may raise,
\* its diarization stage is skipped, fails or labels the segments
RunWhisperx ==
  /\ pc = "asr" /\ backend = "whisperx"
  /\ \E raised \in BOOLEAN, texts \in EngineOutputs, stage_ok \in BOOLEAN,
        labelled \in BOOLEAN :
       LET stage == DiarizationStage(diarize, hf_token, stage_ok) IN
       IF raised \/ DiarizationPropagates(stage)
       THEN /\ exc' = "ASRError" /\ pc' = "finally"
            /\ attempts' = Append(attempts,
                 Attempt("whisperx", FALSE, Language, IF raised THEN "none" ELSE stage, None))
            /\ UNCHANGED result
       ELSE LET r == WhisperxResult(texts,
                       IF labelled /\ stage = "done" THEN "SPEAKER_00" ELSE "")
            IN  /\ result' = Some(r)
                /\ attempts' = Append(attempts,
                     Attempt("whisperx", FALSE, Language, stage, Some(r)))
                /\ pc' = "check_result"
                /\ UNCHANGED exc
  /\ UNCHANGED <<otherVars, groqVars, ppVars, cfgVars, diarize_arg, backend, diarize, model_loaded,
                 hf_token, loads, files, file_idx, success, fs, outcome, outputs>>

\* the first pass: _run_asr_once(safe_file, language=language, use_vad=False)
RunAsrPass1 ==
  /\ pc = "asr" /\ backend # "whisperx"
  /\ \E raised \in BOOLEAN, texts \in EngineOutputs :
       IF raised
       THEN /\ exc' = "ASRError" /\ pc' = "finally"
            /\ attempts' = Append(attempts, Attempt(Engine, FALSE, Language, "none", None))
            /\ UNCHANGED result
       ELSE LET r == AsrResult(texts)
            IN  /\ result' = Some(r)
                /\ attempts' = Append(attempts,
                     Attempt(Engine, FALSE, Language, "none", Some(r)))
                /\ pc' = IF NeedsVadFallback(Some(r)) THEN "asr_vad" ELSE "check_result"
                /\ UNCHANGED exc
  /\ UNCHANGED <<otherVars, groqVars, ppVars, cfgVars, diarize_arg, backend, diarize, model_loaded,
                 hf_token, loads, files, file_idx, success, fs, outcome, outputs>>

\* the fallback pass: _run_asr_once(safe_file, language=language or 'ru', use_vad=True)
RunAsrPass2 ==
  /\ pc = "asr_vad"
  /\ \E raised \in BOOLEAN, texts \in EngineOutputs :
       IF raised
       THEN /\ exc' = "ASRError" /\ pc' = "finally"
            /\ attempts' = Append(attempts,
                 Attempt(Engine, TRUE, FallbackLanguage, "none", None))
            /\ UNCHANGED result
       ELSE LET r == AsrResult(texts)
            IN  /\ result' = Some(r)
                /\ attempts' = Append(attempts,
                     Attempt(Engine, TRUE, FallbackLanguage, "none", Some(r)))
                /\ pc' = "check_result"
                /\ UNCHANGED exc
  /\ UNCHANGED <<otherVars, groqVars, ppVars, cfgVars, diarize_arg, backend, diarize, model_loaded,
                 hf_token, loads, files, file_idx, success, fs, outcome, outputs>>

\* "Транскрипция не дала результата": return False, or go on to save
CheckResult ==
  /\ pc = "check_result"
  /\ IF NoTranscription(result)
     THEN outcome' = "no_result" /\ pc' = "finally"
     ELSE outcome' = "none" /\ pc' = "save_txt"
  /\ UNCHANGED <<otherVars, groqVars, ppVars, cfgVars, diarize_arg, backend, diarize, model_loaded,
                 hf_token, loads, files, file_idx, success, fs, result, exc, attempts, outputs>>

\* the file a save leaves: complete, or what was there when open() or write() raised
Artifact(kind, diarized, text, segments, complete) ==
  [kind |-> kind, diarized |-> diarized, text |-> text, segments |-> segments,
   complete |-> complete]

\* a save whose failure is passed over
Save_swallow(artifact, next_pc, next_outcome) ==
  \E saved \in BOOLEAN :
    /\ outputs' = IF saved THEN Append(outputs, artifact) ELSE outputs
    /\ pc' = next_pc /\ outcome' = next_outcome /\ UNCHANGED exc

\* a save: it writes its file and goes on, or raises OSError with the file created or not
Save(artifact, next_pc, next_outcome) ==
  \E saved \in BOOLEAN, created \in BOOLEAN :
    IF saved
    THEN /\ outputs' = Append(outputs, artifact)
         /\ pc' = next_pc /\ outcome' = next_outcome /\ UNCHANGED exc
    ELSE /\ outputs' = IF created
                       THEN Append(outputs, [artifact EXCEPT !.complete = FALSE])
                       ELSE outputs
         /\ pc' = "finally" /\ exc' = "OSError" /\ UNCHANGED outcome

\* _save_txt_diarized or _save_txt
SaveTxt ==
  /\ pc = "save_txt"
  /\ Save(Artifact("txt", HasSpeakers(result[1]),
                   IF HasSpeakers(result[1])
                   THEN save_txt_diarized(result[1].segments).content
                   ELSE result[1].text,
                   result[1].segments, TRUE),
          "save_json", outcome)
  /\ UNCHANGED <<otherVars, groqVars, ppVars, cfgVars, diarize_arg, backend, diarize, model_loaded,
                 hf_token, loads, files, file_idx, success, fs, result, attempts>>

\* _save_json
SaveJson ==
  /\ pc = "save_json"
  /\ Save(Artifact("json", FALSE, result[1].text, result[1].segments, TRUE),
          "save_srt", outcome)
  /\ UNCHANGED <<otherVars, groqVars, ppVars, cfgVars, diarize_arg, backend, diarize, model_loaded,
                 hf_token, loads, files, file_idx, success, fs, result, attempts>>

\* _save_srt: one cue per segment, its text stripped; then return True
SaveSrt ==
  /\ pc = "save_srt"
  /\ Save(Artifact("srt", HasSpeakers(result[1]), <<>>,
                   [i \in 1..Len(result[1].segments) |->
                      [result[1].segments[i] EXCEPT !.text = strip(@)]], TRUE),
          "finally", "saved")
  /\ UNCHANGED <<otherVars, groqVars, ppVars, cfgVars, diarize_arg, backend, diarize, model_loaded,
                 hf_token, loads, files, file_idx, success, fs, result, attempts>>

\* finally: safe_file.unlink() if it exists, an OSError only logged; then the return
\* or the raise
Finally ==
  /\ pc = "finally"
  /\ \E unlinked \in BOOLEAN :
       fs' = IF fs[SafePath("audio")] # "absent" /\ unlinked
             THEN [fs EXCEPT ![SafePath("audio")] = "absent"]
             ELSE fs
  /\ pc' = IF exc # "none" THEN "raised" ELSE "return"
  /\ UNCHANGED <<otherVars, groqVars, ppVars, cfgVars, diarize_arg, backend, diarize, model_loaded,
                 hf_token, loads, files, file_idx, success, result, exc, outcome, attempts, outputs>>

\* transcribe_files: success += 1 if ok else 0
Return ==
  /\ pc = "return"
  /\ success' = success + (IF outcome = "saved" THEN 1 ELSE 0)
  /\ pc' = "next_file"
  /\ UNCHANGED <<otherVars, groqVars, ppVars, cfgVars, diarize_arg, backend, diarize, model_loaded,
                 hf_token, loads, files, file_idx, fs, result, exc, outcome,
                 attempts, outputs>>

(***************************************************************************)
(* groq_backend.py: GroqTranscriber                                         *)
(***************************************************************************)
\* groq transcribe calls made on one GroqTranscriber
MaxCalls == 3

\* Config.GROQ_MAX_FILE_SIZE
GROQ_MAX_FILE_SIZE == 25 * 1024 * 1024

\* the sizes the model gives a file: at the ceiling, and one byte over it
FileSizes == {GROQ_MAX_FILE_SIZE, GROQ_MAX_FILE_SIZE + 1}

\* the lengths the model gives an HTTP error body
BodyLengths == {0, 200, 201}

NoExc == [cls |-> "none", msg |-> "none", code |-> 0, body |-> 0]
NoResponse == [kind |-> "none", code |-> 0, body |-> 0, text |-> <<>>, segments |-> <<>>]
NoFileInfo == [path |-> "none", size |-> 0]
NoUpload == [path |-> "none", size |-> 0, how |-> "none"]

\* what every GroqTranscriber starts with, used or not
GroqStart ==
  /\ calls = 0
  /\ audio = [suffix |-> "none", size |-> 0] /\ audio_exists = FALSE
  /\ upload = NoUpload /\ should_cleanup = FALSE
  /\ temp_file = NoFileInfo /\ response = NoResponse /\ g_exc = NoExc
  /\ g_result = None /\ requests = <<>> /\ seen_failures = {}

\* the transcriber is not used
GroqIdle == api_key = FALSE /\ g_pc = "unused" /\ GroqStart

\* the state after GroqTranscriber(): api_key is Config.GROQ_API_KEY, set or empty
GroqInit == api_key \in BOOLEAN /\ g_pc = "idle" /\ GroqStart

\* every size taken as within the limit
check_file_size_always(size) == TRUE

\* _check_file_size
check_file_size(size) == ~(size > GROQ_MAX_FILE_SIZE)

\* error_body[:200]
Truncated(len) == IF len > 200 THEN 200 ELSE len

\* the failure of a request, as the spec classifies it
FailureKind(resp) ==
  IF resp.kind = "http"
  THEN (IF resp.code = 429 THEN "http_429"
        ELSE IF resp.code = 413 THEN "http_413"
        ELSE IF resp.code = 401 THEN "http_401"
        ELSE "http_other")
  ELSE resp.kind

\* every HTTP status handled by the last branch, 429 among them
RaiseFor_no_rate_limit(resp) ==
  IF resp.kind = "http"
  THEN [cls |-> "GroqAPIError", msg |-> "api_error", code |-> resp.code,
        body |-> IF resp.body > 200 THEN 200 ELSE resp.body]
  ELSE IF resp.kind = "network"
  THEN [cls |-> "GroqAPIError", msg |-> "network", code |-> 0, body |-> 0]
  ELSE [cls |-> "JSONDecodeError", msg |-> "json", code |-> 0, body |-> 0]

\* transcribe: the exception its except clauses raise for a failed request; an
\* exception that is neither HTTPError nor URLError passes through
RaiseFor(resp) ==
  IF resp.kind = "http"
  THEN (IF resp.code = 429
        THEN [cls |-> "GroqRateLimitError", msg |-> "rate_limit", code |-> 0, body |-> 0]
        ELSE IF resp.code = 413
        THEN [cls |-> "GroqAPIError", msg |-> "too_large", code |-> 0, body |-> 0]
        ELSE IF resp.code = 401
        THEN [cls |-> "GroqAPIError", msg |-> "bad_key", code |-> 0, body |-> 0]
        ELSE [cls |-> "GroqAPIError", msg |-> "api_error", code |-> resp.code,
              body |-> Truncated(resp.body)])
  ELSE IF resp.kind = "network"
  THEN [cls |-> "GroqAPIError", msg |-> "network", code |-> 0, body |-> 0]
  ELSE [cls |-> "JSONDecodeError", msg |-> "json", code |-> 0, body |-> 0]

\* the key taken as set
is_available_always(key) == TRUE

\* is_available: bool(self.api_key)
is_available(key) == key

\* transcribe(audio_path): is_available(), else GroqAPIError
GroqTranscribe ==
  /\ g_pc \in {"idle", "returned", "raised"}
  /\ calls < MaxCalls
  /\ calls' = calls + 1
  /\ \E suffix \in {".mp3", ".wav"}, size \in FileSizes :
       audio' = [suffix |-> suffix, size |-> size]
  /\ audio_exists' = TRUE
  /\ upload' = NoUpload /\ should_cleanup' = FALSE /\ response' = NoResponse
  /\ requests' = <<>> /\ g_result' = None
  /\ IF is_available(api_key)
     THEN g_pc' = "prepare" /\ g_exc' = NoExc
     ELSE g_pc' = "raised"
          /\ g_exc' = [cls |-> "GroqAPIError", msg |-> "no_key", code |-> 0, body |-> 0]
  /\ UNCHANGED <<otherVars, cfgVars, orchVars, ppVars, api_key, temp_file, seen_failures>>

\* _prepare_audio: "return audio_path, False"
ReturnAudioPath(a, how) ==
  [upload |-> [path |-> "audio", size |-> a.size, how |-> how], should_cleanup |-> FALSE]

\* _prepare_audio: "return temp_file, True"
ReturnTempFile(size, how) ==
  [upload |-> [path |-> "temp", size |-> size, how |-> how], should_cleanup |-> TRUE]

\* _prepare_audio: a small mp3/m4a/webm goes as it is, anything else to ffmpeg at 64k
PrepareAudio ==
  /\ g_pc = "prepare"
  /\ IF audio.suffix \in {".mp3", ".m4a", ".webm"} /\ check_file_size(audio.size)
     THEN /\ upload' = ReturnAudioPath(audio, "as_is").upload
          /\ should_cleanup' = ReturnAudioPath(audio, "as_is").should_cleanup
          /\ g_pc' = "send"
     ELSE /\ g_pc' = "ffmpeg_64k"
          /\ UNCHANGED <<upload, should_cleanup>>
  /\ UNCHANGED <<otherVars, cfgVars, orchVars, ppVars, api_key, calls, audio, audio_exists, temp_file,
                 response, g_exc, g_result, requests, seen_failures>>

\* _prepare_audio: the first ffmpeg run, then _check_file_size(temp_file); a failed
\* run may leave a file behind, and the audio is then sent as it is
Ffmpeg64k ==
  /\ g_pc = "ffmpeg_64k"
  /\ \E converted \in BOOLEAN, written \in BOOLEAN, size \in FileSizes :
       IF converted
       THEN /\ temp_file' = [path |-> "temp", size |-> size]
            /\ IF check_file_size(size)
               THEN /\ upload' = ReturnTempFile(size, "64k").upload
                    /\ should_cleanup' = ReturnTempFile(size, "64k").should_cleanup
                    /\ g_pc' = "send"
               ELSE /\ g_pc' = "ffmpeg_32k"
                    /\ UNCHANGED <<upload, should_cleanup>>
       ELSE /\ temp_file' = IF written THEN [path |-> "temp", size |-> size] ELSE temp_file
            /\ upload' = ReturnAudioPath(audio, "unconverted").upload
            /\ should_cleanup' = ReturnAudioPath(audio, "unconverted").should_cleanup
            /\ g_pc' = "send"
  /\ UNCHANGED <<otherVars, cfgVars, orchVars, ppVars, api_key, calls, audio, audio_exists, response,
                 g_exc, g_result, requests, seen_failures>>

\* _prepare_audio: the second ffmpeg run at 32k; its output is not measured again
Ffmpeg32k ==
  /\ g_pc = "ffmpeg_32k"
  /\ \E converted \in BOOLEAN, size \in FileSizes :
       IF converted
       THEN /\ temp_file' = [path |-> "temp", size |-> size]
            /\ upload' = ReturnTempFile(size, "32k").upload
            /\ should_cleanup' = ReturnTempFile(size, "32k").should_cleanup
       ELSE /\ upload' = ReturnAudioPath(audio, "unconverted").upload
            /\ should_cleanup' = ReturnAudioPath(audio, "unconverted").should_cleanup
            /\ UNCHANGED temp_file
  /\ g_pc' = "send"
  /\ UNCHANGED <<otherVars, cfgVars, orchVars, ppVars, api_key, calls, audio, audio_exists, response,
                 g_exc, g_result, requests, seen_failures>>

\* the texts and the segment texts of the answers the model lets the API give
ApiTexts == {TxtBlank, TxtKakDela}
ApiSegments == {<<>>, <<TxtSpDa>>}

\* the answers of the API to one request
Responses ==
  {[kind |-> "ok", code |-> 200, body |-> 0, text |-> t, segments |-> segs] :
     t \in ApiTexts, segs \in ApiSegments}
  \cup {[kind |-> k, code |-> 0, body |-> 0, text |-> <<>>, segments |-> <<>>] :
          k \in {"network", "bad_json"}}
  \cup {[kind |-> "http", code |-> c, body |-> b, text |-> <<>>, segments |-> <<>>] :
          c \in {429, 413, 401, 500}, b \in BodyLengths}

\* transcribe and _parse_segments: the dict returned for a parsed answer
GroqResult(resp) ==
  [text |-> strip(resp.text),
   segments |-> [i \in 1..Len(resp.segments) |->
                   [start |-> i, text |-> strip(resp.segments[i])]],
   backend |-> "groq"]

\* transcribe: urlopen(request), the except clauses, and the dict to return
SendRequest ==
  /\ g_pc = "send"
  /\ requests' = Append(requests, upload)
  /\ \E resp \in Responses :
       /\ response' = resp
       /\ IF resp.kind = "ok"
          THEN g_result' = Some(GroqResult(resp)) /\ UNCHANGED <<g_exc, seen_failures>>
          ELSE /\ g_exc' = RaiseFor(resp)
               /\ seen_failures' = seen_failures \cup
                    {[failure |-> FailureKind(resp), cls |-> RaiseFor(resp).cls]}
               /\ UNCHANGED g_result
  /\ g_pc' = "finally"
  /\ UNCHANGED <<otherVars, cfgVars, orchVars, ppVars, api_key, calls, audio, audio_exists, upload,
                 should_cleanup, temp_file>>

\* finally: "if should_cleanup and upload_path.exists()": upload_path.unlink(), an
\* OSError passed over
GroqFinally ==
  /\ g_pc = "finally"
  /\ \E unlinked \in BOOLEAN :
       LET removes == should_cleanup /\ unlinked
       IN  /\ temp_file' = IF removes /\ upload.path = "temp" THEN NoFileInfo ELSE temp_file
           /\ audio_exists' = IF removes /\ upload.path = "audio" THEN FALSE ELSE audio_exists
  /\ g_pc' = IF g_exc = NoExc THEN "returned" ELSE "raised"
  /\ UNCHANGED <<otherVars, cfgVars, orchVars, ppVars, api_key, calls, audio, upload, should_cleanup,
                 response, g_exc, g_result, requests, seen_failures>>

(***************************************************************************)
(* postprocess.py: filter_hallucinations and postprocess_transcription,     *)
(* applied to the segment sequences below                                   *)
(***************************************************************************)
\* segments of an input over all the texts
MaxShortLen == 2
\* segments of an input over the texts of LongTexts
MaxLongLen == 5

AllTexts ==
  {TxtEmpty, TxtBlank, TxtAmara, TxtPrivet3, TxtKakDela, TxtBang2, TxtDa, TxtDaDaDa,
   TxtPrivetMirSp, TxtPrivetMir, TxtHello, TxtHelloBang, TxtKakDelaOk}
LongTexts == {TxtEmpty, TxtDa, TxtKakDela}

\* the inputs of longer than MaxLongLen that the scenarios of the specification name
ScenarioTexts ==
  {<<TxtAmara, TxtPrivet3, TxtKakDela>>, <<TxtHello, TxtDa, TxtDa, TxtHelloBang>>}

InputTexts ==
  SeqsUpTo(AllTexts, MaxShortLen) \cup SeqsUpTo(LongTexts, MaxLongLen) \cup ScenarioTexts

\* the segments of a transcription, from their texts; start tells them apart
Segments(texts) == [i \in 1..Len(texts) |-> [start |-> i, text |-> texts[i]]]

Texts(segments) == [i \in 1..Len(segments) |-> segments[i].text]

\* no filter call is in progress
FilterIdle ==
  /\ f_pc = "idle" /\ input = <<>> /\ check_repeats = FALSE /\ idx = 0
  /\ loop = FilterStart /\ decisions = <<>> /\ refiltered = None
  /\ filter_enabled = FALSE /\ post1 = None /\ post2 = None

\* the segments of a backend result, before postprocess.py is called on them
FilterInit ==
  /\ f_pc = "call"
  /\ \E texts \in InputTexts : input = Segments(texts)
  /\ check_repeats = FALSE
  /\ idx = 0 /\ loop = FilterStart /\ decisions = <<>> /\ refiltered = None
  /\ filter_enabled = FALSE /\ post1 = None /\ post2 = None

\* filter_hallucinations(input, check_repeats): "if not segments: return segments",
\* else the loop starts
FilterCall ==
  /\ f_pc = "call"
  /\ \E check \in BOOLEAN : check_repeats' = check
  /\ f_pc' = IF input = <<>> THEN "returned" ELSE "loop"
  /\ idx' = 1
  /\ UNCHANGED <<otherVars, cfgVars, orchVars, groqVars, input, loop, decisions, refiltered,
                 filter_enabled, post1, post2>>

\* "for seg in segments": one iteration
FilterIterate ==
  /\ f_pc = "loop" /\ idx <= Len(input)
  /\ loop' = filter_step(loop, input[idx], check_repeats)
  /\ decisions' = Append(decisions, FilterDecision(loop, input[idx], check_repeats))
  /\ idx' = idx + 1
  /\ UNCHANGED <<otherVars, cfgVars, orchVars, groqVars, f_pc, input, check_repeats, refiltered,
                 filter_enabled, post1, post2>>

\* "return filtered"
FilterReturn ==
  /\ f_pc = "loop" /\ idx > Len(input)
  /\ f_pc' = "returned"
  /\ UNCHANGED <<otherVars, cfgVars, orchVars, groqVars, input, check_repeats, idx, loop, decisions,
                 refiltered, filter_enabled, post1, post2>>

\* filter_hallucinations called on the list it returned
FilterAgain ==
  /\ f_pc = "returned"
  /\ refiltered' = Some(filter_hallucinations(loop.filtered, check_repeats))
  /\ f_pc' = "refiltered"
  /\ UNCHANGED <<otherVars, cfgVars, orchVars, groqVars, input, check_repeats, idx, loop, decisions,
                 filter_enabled, post1, post2>>

\* postprocess_transcription(result, filter_enabled) on a backend result of these
\* segments, or on None
Postprocess ==
  /\ f_pc = "call"
  /\ \E enabled \in BOOLEAN, given \in BOOLEAN :
       /\ filter_enabled' = enabled
       /\ post1' = postprocess_transcription(
            IF given
            THEN Some([text |-> strip(join(<<32>>, Texts(input))), segments |-> input])
            ELSE None,
            enabled)
  /\ f_pc' = "post1"
  /\ UNCHANGED <<otherVars, cfgVars, orchVars, groqVars, input, check_repeats, idx, loop, decisions,
                 refiltered, post2>>

\* postprocess_transcription called on the result it returned
PostprocessAgain ==
  /\ f_pc = "post1"
  /\ post2' = postprocess_transcription(post1, filter_enabled)
  /\ f_pc' = "done"
  /\ UNCHANGED <<otherVars, cfgVars, orchVars, groqVars, input, check_repeats, idx, loop, decisions,
                 refiltered, filter_enabled, post1>>

(***************************************************************************)
(* cli_typer.py, cli.py: the transcribe command                             *)
(***************************************************************************)
\* --summarize taken before --no-summarize
SummarizeFlag_summarize_first(summarize, no_summarize) ==
  IF summarize THEN "True" ELSE IF no_summarize THEN "False" ELSE "None"

\* summarize_final from the two flags
SummarizeFlag(summarize, no_summarize) ==
  IF no_summarize THEN "False" ELSE IF summarize THEN "True" ELSE "None"

\* the summarize argument of EnhancedTranscriber(...)
SummarizeFinal(summarize, no_summarize, auto_summarize, available) ==
  LET summarize_final == SummarizeFlag(summarize, no_summarize)
      will_summarize == IF summarize_final # "None" THEN summarize_final = "True"
                        ELSE auto_summarize
  IN  IF will_summarize /\ ~available THEN "False" ELSE summarize_final

(***************************************************************************)
(* recorder.py: MeetingRecorder.record                                      *)
(***************************************************************************)
MaxPolls == 2

\* the recorder before record() is called; monitor_on: enable_monitor and the monitor
\* available
RecStart(monitor_on) ==
  [pc |-> "probe", monitor_on |-> monitor_on, process |-> "none", monitor |-> "none",
   file |-> "absent", polls |-> 0, interrupted |-> FALSE, pending |-> "none",
   returned |-> "none"]

RecIdle == rec = [RecStart(FALSE) EXCEPT !.pc = "unused"]

RecInit == \E monitor_on \in BOOLEAN : rec = RecStart(monitor_on)

RecUnchanged == UNCHANGED <<cfgVars, orchVars, groqVars, ppVars, fnVars, mon, wx>>

\* "if not self._record_probe(device): return None"
RecordProbe ==
  /\ rec.pc = "probe"
  /\ \E ok \in BOOLEAN :
       rec' = IF ok THEN [rec EXCEPT !.pc = "monitor"]
              ELSE [rec EXCEPT !.pc = "returned", !.returned = "None"]
  /\ RecUnchanged

\* the monitor is made and started, before the try
StartMonitor ==
  /\ rec.pc = "monitor"
  /\ rec' = [rec EXCEPT !.pc = "popen",
                        !.monitor = IF rec.monitor_on THEN "started" ELSE "none"]
  /\ RecUnchanged

\* open(log_file) and subprocess.Popen: the process runs, or one of the two raises
Popen ==
  /\ rec.pc = "popen"
  /\ \E raised \in BOOLEAN :
       rec' = IF raised THEN [rec EXCEPT !.pc = "except"]
              ELSE [rec EXCEPT !.pc = "poll", !.process = "running"]
  /\ RecUnchanged

\* ffmpeg ends by itself, leaving a file that is valid, broken or missing
ProcessExits ==
  /\ rec.pc \in {"poll", "except", "interrupted", "finally"} /\ rec.process = "running"
  /\ \E file \in {"valid", "broken", "absent"} :
       rec' = [rec EXCEPT !.process = "exited", !.file = file]
  /\ RecUnchanged

\* one turn of "while self.recording_process.poll() is None": the duration is printed
\* and the loop sleeps, or the print raises; the loop ends when the process has ended
Poll ==
  /\ rec.pc = "poll"
  /\ IF rec.process = "running"
     THEN /\ rec.polls < MaxPolls
          /\ \E raised \in BOOLEAN :
               rec' = IF raised THEN [rec EXCEPT !.pc = "except"]
                      ELSE [rec EXCEPT !.polls = @ + 1]
     ELSE rec' = [rec EXCEPT !.pc = "finally"]
  /\ RecUnchanged

\* Ctrl+C inside the try
Interrupt ==
  /\ rec.pc \in {"popen", "poll"}
  /\ rec' = [rec EXCEPT !.pc = "interrupted", !.interrupted = TRUE]
  /\ RecUnchanged

\* "except KeyboardInterrupt": terminate() and wait() if there is a process; a second
\* Ctrl+C during wait() leaves the clause with the process as it is
ExceptKeyboardInterrupt ==
  /\ rec.pc = "interrupted"
  /\ \/ /\ rec.process = "running"
        /\ \/ \E file \in {"valid", "broken", "absent"} :
                rec' = [rec EXCEPT !.pc = "finally", !.process = "terminated", !.file = file]
           \/ rec' = [rec EXCEPT !.pc = "finally", !.pending = "raise"]
     \/ /\ rec.process # "running"
        /\ rec' = [rec EXCEPT !.pc = "finally"]
  /\ RecUnchanged

\* "except Exception": the error is logged, return None
ExceptException ==
  /\ rec.pc = "except"
  /\ rec' = [rec EXCEPT !.pc = "finally", !.pending = "None"]
  /\ RecUnchanged

\* finally: the monitor is stopped; then the pending return or exception, or on
RecFinally ==
  /\ rec.pc = "finally"
  /\ rec' = [rec EXCEPT !.monitor = IF @ = "started" THEN "stopped" ELSE @,
                        !.pc = CASE rec.pending = "None" -> "returned"
                                 [] rec.pending = "raise" -> "raised"
                                 [] OTHER -> "validate",
                        !.returned = IF rec.pending = "None" THEN "None" ELSE @]
  /\ RecUnchanged

\* "if output_path.exists() and ffprobe_ok(output_path): return [output_path]", else None
Validate ==
  /\ rec.pc = "validate"
  /\ rec' = [rec EXCEPT !.pc = "returned",
                        !.returned = IF rec.file = "valid" THEN "path" ELSE "None"]
  /\ RecUnchanged

(***************************************************************************)
(* audio_monitor.py: AudioLevelMonitor                                      *)
(***************************************************************************)
MaxThreads == 3

Threads == 1..MaxThreads

\* a monitor thread is alive from Thread.start() to the end of _monitor_loop; it holds
\* the input stream from stream.start() to the finally
Alive(t) == mon.threads[t] \in {"opening", "looping"}

\* a call that is over: what it returned, whether _running was set when it began, whether
\* it started a thread, and whether a thread was alive when it returned
Over(name, returned, was_running, spawned, alive) ==
  [call |-> name, returned |-> returned, was_running |-> was_running, spawned |-> spawned,
   alive |-> alive]

NoCallYet == Over("none", FALSE, FALSE, FALSE, FALSE)

\* the monitor after AudioLevelMonitor(device)
MonStart(has_sounddevice) ==
  [HAS_SOUNDDEVICE |-> has_sounddevice, running |-> FALSE, thread |-> None,
   threads |-> [t \in Threads |-> "unborn"], pc |-> "idle", last |-> NoCallYet]

MonIdle == mon = [MonStart(FALSE) EXCEPT !.pc = "unused"]

MonInit == \E has_sounddevice \in BOOLEAN : mon = MonStart(has_sounddevice)

MonUnchanged == UNCHANGED <<cfgVars, orchVars, groqVars, ppVars, fnVars, rec, wx>>

\* start(): False without sounddevice, True at once if _running, else _running is set
\* and a thread made and started
MonitorStart ==
  /\ mon.pc = "idle"
  /\ IF ~mon.HAS_SOUNDDEVICE
     THEN mon' = [mon EXCEPT !.last = Over("start", FALSE, mon.running, FALSE,
                                           \E u \in Threads : Alive(u))]
     ELSE IF mon.running
     THEN mon' = [mon EXCEPT !.last = Over("start", TRUE, TRUE, FALSE,
                                           \E u \in Threads : Alive(u))]
     ELSE \E t \in Threads :
            /\ mon.threads[t] = "unborn"
            /\ \A u \in Threads : u < t => mon.threads[u] # "unborn"
            /\ mon' = [mon EXCEPT !.running = TRUE, !.thread = Some(t),
                                  !.threads[t] = "opening",
                                  !.last = Over("start", TRUE, FALSE, TRUE, TRUE)]
  /\ MonUnchanged

\* stop(), its first statement: _running = False
MonitorStop ==
  /\ mon.pc = "idle"
  /\ mon' = [mon EXCEPT !.running = FALSE, !.pc = "join"]
  /\ MonUnchanged

\* stop(), the rest: join(timeout=1.0) if the thread is alive, which returns when the
\* thread has ended or when the second is over; then _thread = None
MonitorJoin ==
  /\ mon.pc = "join"
  /\ mon' = [mon EXCEPT !.thread = None, !.pc = "idle",
                        !.last = Over("stop", TRUE, FALSE, FALSE,
                                      \E u \in Threads : Alive(u))]
  /\ MonUnchanged

\* _monitor_loop up to the loop: the device is queried and the stream opened and
\* started, or one of these raises, which is logged, and the thread ends
ThreadOpen ==
  /\ \E t \in Threads, raised \in BOOLEAN :
       /\ mon.threads[t] = "opening"
       /\ mon' = [mon EXCEPT !.threads[t] = IF raised THEN "dead" ELSE "looping"]
  /\ MonUnchanged

\* "while self._running": the level is rendered and the thread sleeps; once _running
\* is false the loop ends, the finally closes the stream and the thread ends
ThreadLoop ==
  /\ \E t \in Threads, raised \in BOOLEAN :
       /\ mon.threads[t] = "looping"
       /\ raised \/ ~mon.running
       /\ mon' = [mon EXCEPT !.threads[t] = "dead"]
  /\ MonUnchanged

(***************************************************************************)
(* whisperx.py: the alignment model of WhisperXTranscriber                  *)
(***************************************************************************)
Languages == {"ru", "en", "de"}

\* the alignment model kept whatever the language
NeedsAlignModel_first_only(align_language, detected_language) == align_language = "None"

\* "if self._align_language != detected_language"
NeedsAlignModel(align_language, detected_language) == align_language # detected_language

\* the transcriber after __init__; align_model is the language the cached model was
\* loaded for, loaded_over the _align_language over which a call loaded a model
WxStart ==
  [pc |-> "idle", align_model |-> "None", align_language |-> "None",
   language |-> "None", detected_language |-> "None", loaded_over |-> "no_load",
   aligned_with |-> "None", outcome |-> "none"]

WxIdle == wx = [WxStart EXCEPT !.pc = "unused"]

WxInit == wx = WxStart

WxUnchanged == UNCHANGED <<cfgVars, orchVars, groqVars, ppVars, fnVars, rec, mon>>

\* what a call that raises leaves
WxRaised == [wx EXCEPT !.pc = "idle", !.outcome = "raised"]

\* transcribe(audio_path, language) is called
WxTranscribe ==
  /\ wx.pc = "idle"
  /\ \E language \in Languages \cup {"None"} :
       wx' = [wx EXCEPT !.pc = "asr", !.language = language, !.detected_language = "None",
                        !.loaded_over = "no_load", !.aligned_with = "None", !.outcome = "none"]
  /\ WxUnchanged

\* step 1: load_model, load_audio and model.transcribe, any of which may raise;
\* detected_language = result.get("language", language or "ru")
WxAsr ==
  /\ wx.pc = "asr"
  /\ \E raised \in BOOLEAN, reported \in Languages \cup {"None"} :
       wx' = IF raised THEN WxRaised
             ELSE [wx EXCEPT !.pc = "load_align",
                             !.detected_language =
                                IF reported # "None" THEN reported
                                ELSE IF wx.language # "None" THEN wx.language ELSE "ru"]
  /\ WxUnchanged

\* step 2, the cache: load_align_model for the detected language if it is not the cached
\* one; the model, its metadata and _align_language are set once it has returned
WxLoadAlign ==
  /\ wx.pc = "load_align"
  /\ IF NeedsAlignModel(wx.align_language, wx.detected_language)
     THEN \E raised \in BOOLEAN :
            wx' = IF raised THEN WxRaised
                  ELSE [wx EXCEPT !.pc = "align", !.align_model = wx.detected_language,
                                  !.align_language = wx.detected_language,
                                  !.loaded_over = wx.align_language]
     ELSE wx' = [wx EXCEPT !.pc = "align"]
  /\ WxUnchanged

\* step 2, whisperx.align with the cached model; then step 3 and the return
WxAlign ==
  /\ wx.pc = "align"
  /\ \E raised \in BOOLEAN :
       wx' = IF raised THEN [WxRaised EXCEPT !.aligned_with = wx.align_model]
             ELSE [wx EXCEPT !.pc = "idle", !.aligned_with = wx.align_model,
                             !.outcome = "returned"]
  /\ WxUnchanged

(***************************************************************************)
(* Calls of the functions above                                             *)
(***************************************************************************)
MaxHours == 1

\* times of whole milliseconds
TimesMs ==
  {h * 3600000 + m * 60000 + sec * 1000 + f :
     h \in 0..MaxHours, m \in {0, 1, 59}, sec \in {0, 1, 59}, f \in {0, 1, 250, 999}}

MaxSegs == 3

TxtHi == <<104, 105>>

TxtSpYo == <<32, 121, 111>>

TxtHey == <<104, 101, 121>>

\* segments two seconds apart from a first start, labelled or not
SegmentLists ==
  {[i \in 1..Len(c) |-> [start |-> first + 2 * (i - 1), text |-> c[i][1], speaker |-> c[i][2]]] :
     c \in SeqsUpTo({TxtBlank, TxtHi, TxtSpYo, TxtHey} \X {"", "A", "B"}, MaxSegs)
          \cup SeqsUpTo({TxtBlank, TxtHi} \X {"", "SPEAKER", "UNKNOWN"}, MaxSegs),
     first \in {0, 58}}

NoCall == [fn |-> "none", args |-> <<>>, done |-> FALSE, out |-> <<>>]

FnIdle == call = NoCall

OthersIdle == FnIdle /\ RecIdle /\ MonIdle /\ WxIdle

Pending(fn, args) == [fn |-> fn, args |-> args, done |-> FALSE, out |-> <<>>]

FnInit ==
  \/ \E ms \in TimesMs : call = Pending("format_timestamp_srt", ms)
  \/ \E segments \in SegmentLists :
       \E fn \in {"_save_txt_diarized", "format_segments_with_speakers"} :
         call = Pending(fn, segments)
  \/ \E args \in [summarize : BOOLEAN, no_summarize : BOOLEAN, AUTO_SUMMARIZE : BOOLEAN,
                  available : BOOLEAN] : call = Pending("transcribe", args)

Returns(out) ==
  /\ call' = [call EXCEPT !.done = TRUE, !.out = out]
  /\ UNCHANGED <<cfgVars, orchVars, groqVars, ppVars, rec, mon, wx>>

FormatTimestampSrt ==
  /\ call.fn = "format_timestamp_srt" /\ ~call.done
  /\ Returns(format_timestamp_srt(call.args))

SaveTxtDiarized ==
  /\ call.fn = "_save_txt_diarized" /\ ~call.done
  /\ Returns(save_txt_diarized(call.args))

FormatSegmentsWithSpeakers ==
  /\ call.fn = "format_segments_with_speakers" /\ ~call.done
  /\ Returns(format_segments_with_speakers(call.args))

TranscribeCommand ==
  /\ call.fn = "transcribe" /\ ~call.done
  /\ Returns(SummarizeFinal(call.args.summarize, call.args.no_summarize,
                            call.args.AUTO_SUMMARIZE, call.args.available))

(***************************************************************************)
(* Specifications                                                           *)
(***************************************************************************)
\* the configuration and the transcriber when only a backend or the filter is used
OrchIdle(backends, fallbacks) ==
  /\ ASR_BACKEND \in backends
  /\ ASR_FALLBACK \in fallbacks
  /\ FORCE_RU = FALSE /\ HAS_WHISPERX = FALSE
  /\ diarize_arg = FALSE /\ backend = ASR_BACKEND /\ diarize = FALSE
  /\ model_loaded = FALSE /\ hf_token = FALSE /\ loads = 0
  /\ pc = "unused"
  /\ NoFile

Next ==
  \/ TranscribeFiles \/ LoadModel \/ NextFile \/ CheckFile \/ Convert
  \/ RunWhisperx \/ RunAsrPass1 \/ RunAsrPass2 \/ CheckResult
  \/ SaveTxt \/ SaveJson \/ SaveSrt \/ Finally \/ Return

Init == OrchInit /\ GroqIdle /\ FilterIdle /\ OthersIdle

\* EnhancedTranscriber.transcribe_files
Spec == Init /\ [][Next]_vars

GroqNext ==
  \/ GroqTranscribe \/ PrepareAudio \/ Ffmpeg64k \/ Ffmpeg32k \/ SendRequest \/ GroqFinally

InitGroq == OrchIdle({"groq", "auto"}, BOOLEAN) /\ GroqInit /\ FilterIdle /\ OthersIdle

\* GroqTranscriber.transcribe
SpecGroq == InitGroq /\ [][GroqNext]_vars

FilterNext ==
  \/ FilterCall \/ FilterIterate \/ FilterReturn \/ FilterAgain \/ Postprocess
  \/ PostprocessAgain

InitFilter == OrchIdle({"faster"}, {TRUE}) /\ GroqIdle /\ FilterInit /\ OthersIdle

\* filter_hallucinations and postprocess_transcription
SpecFilter == InitFilter /\ [][FilterNext]_vars

FunctionsNext ==
  \/ FormatTimestampSrt \/ SaveTxtDiarized \/ FormatSegmentsWithSpeakers \/ TranscribeCommand

InitFunctions ==
  OrchIdle({"faster"}, {TRUE}) /\ GroqIdle /\ FilterIdle /\ FnInit /\ RecIdle /\ MonIdle /\ WxIdle

\* single calls of the functions of the package
SpecFunctions == InitFunctions /\ [][FunctionsNext]_vars

RecorderNext ==
  \/ RecordProbe \/ StartMonitor \/ Popen \/ ProcessExits \/ Poll \/ Interrupt
  \/ ExceptKeyboardInterrupt \/ ExceptException \/ RecFinally \/ Validate

InitRecorder ==
  OrchIdle({"faster"}, {TRUE}) /\ GroqIdle /\ FilterIdle /\ FnIdle /\ RecInit /\ MonIdle /\ WxIdle

\* one call of MeetingRecorder.record
SpecRecorder == InitRecorder /\ [][RecorderNext]_vars

MonitorNext == MonitorStart \/ MonitorStop \/ MonitorJoin \/ ThreadOpen \/ ThreadLoop

InitMonitor ==
  OrchIdle({"faster"}, {TRUE}) /\ GroqIdle /\ FilterIdle /\ FnIdle /\ RecIdle /\ MonInit /\ WxIdle

\* start() and stop() of one AudioLevelMonitor, called one after the other, and its threads
SpecMonitor == InitMonitor /\ [][MonitorNext]_vars

WhisperxNext == WxTranscribe \/ WxAsr \/ WxLoadAlign \/ WxAlign

InitWhisperx ==
  OrchIdle({"faster"}, {TRUE}) /\ GroqIdle /\ FilterIdle /\ FnIdle /\ RecIdle /\ MonIdle /\ WxInit

\* transcribe calls of one WhisperXTranscriber, one after the other
SpecWhisperx == InitWhisperx /\ [][WhisperxNext]_vars

BackendsNext == Next \/ GroqNext

InitBackends == Init \/ InitGroq

\* a transcriber of either kind at work: EnhancedTranscriber.transcribe_files with
\* its engines, or GroqTranscriber.transcribe
SpecBackends == InitBackends /\ [][BackendsNext]_vars

(***************************************************************************)
(* Properties of _transcribe_single                                         *)
(***************************************************************************)
\* the engine of the current file is faster-whisper or openai-whisper
LocalEngine == backend # "whisperx"

\* the n-th engine invocation of the current file returned a result
Returned(n) == Len(attempts) >= n /\ attempts[n].returned # None

\* the result the n-th invocation returned
ResultOf(n) == attempts[n].returned[1]

\* the file is decided: _transcribe_single returned its verdict
Decided == pc = "return" /\ attempts # <<>>

\* C1: with faster-whisper or openai-whisper, once the first pass (VAD off) has
\* returned at least one segment, it stays the only engine invocation for the file:
\* the VAD pass is never started, whatever the texts of the segments are.
C1_NoVadPassAfterSegments ==
  (LocalEngine /\ Returned(1) /\ Len(ResultOf(1).segments) >= 1)
    => /\ Len(attempts) = 1
       /\ attempts[1].vad = FALSE
       /\ pc # "asr_vad"

\* the file is decided after a single pass that returned two segments of only blanks
C1_Witness ==
  /\ Decided /\ LocalEngine /\ Len(attempts) = 1 /\ Returned(1)
  /\ Texts(ResultOf(1).segments) = <<TxtBlank, TxtBlank>>

\* both passes ran and both returned no segment
BothPassesEmpty ==
  /\ LocalEngine /\ Returned(1) /\ Returned(2)
  /\ ResultOf(1).segments = <<>> /\ ResultOf(2).segments = <<>>

\* C2: when the pass without VAD and the pass with VAD both returned zero segments,
\* _transcribe_single returns False and no text, JSON or SRT file is written.
C2_BothEmptyFails ==
  BothPassesEmpty =>
    /\ outputs = <<>>
    /\ pc \in {"check_result", "finally", "return", "next_file", "done"}
    /\ (pc # "check_result" => outcome = "no_result")
    /\ exc = "none"

\* the file is decided after two passes without segments
C2_Witness == Decided /\ BothPassesEmpty /\ outcome = "no_result" /\ success = 0

\* C3 as stated: Failed is entered only after the VAD pass has run, and a result with
\* at least one segment from either pass leads to Succeeded.
C3_Original ==
  LocalEngine =>
    /\ (outcome = "no_result" => Len(attempts) = 2)
    /\ (Decided /\ Returned(Len(attempts)) /\ ResultOf(Len(attempts)).segments # <<>>
          => outcome = "saved")

\* C3: the passes of a file are NoVadAttempt, then VadFallbackAttempt exactly when
\* NoVadAttempt returned no segment; the file is Succeeded when the text of the last
\* pass is not blank and Failed when it is blank, so Failed is entered from
\* VadFallbackAttempt, or from NoVadAttempt when it returned segments of only blanks.
C3_PassStateMachine ==
  LocalEngine =>
    /\ Len(attempts) <= 2
    /\ (attempts # <<>> => ~attempts[1].vad)
    /\ (Len(attempts) = 2 =>
          Returned(1) /\ ResultOf(1).segments = <<>> /\ attempts[2].vad)
    /\ (Len(attempts) = 1 /\ Returned(1) /\ ResultOf(1).segments = <<>> => pc = "asr_vad")
    /\ (outcome = "no_result" =>
          Returned(Len(attempts)) /\ strip(ResultOf(Len(attempts)).text) = <<>>)
    /\ (outcome = "saved" =>
          Returned(Len(attempts)) /\ strip(ResultOf(Len(attempts)).text) # <<>>)
    /\ (Decided /\ Returned(Len(attempts)) => outcome \in {"no_result", "saved"})

\* Failed entered from NoVadAttempt: one pass, a segment of blanks, no result
C3_Witness ==
  /\ Decided /\ LocalEngine /\ Len(attempts) = 1 /\ Returned(1)
  /\ ResultOf(1).segments # <<>> /\ outcome = "no_result"

\* C6: every segment written to a text, JSON or SRT file has passed the filter: the
\* segments of each file written are those postprocess_transcription leaves of the
\* result of the backend.
C6_Original ==
  \A i \in 1..Len(outputs) :
    /\ Returned(Len(attempts))
    /\ Texts(outputs[i].segments)
         = Texts(postprocess_transcription(attempts[Len(attempts)].returned, TRUE)[1].segments)

(***************************************************************************)
(* Properties of GroqTranscriber.transcribe                                 *)
(***************************************************************************)
\* the call has raised GroqRateLimitError to its caller
RateLimited == g_pc = "raised" /\ g_exc.cls = "GroqRateLimitError"

\* C4: when the call of the cloud API for a file has failed with HTTP 429, then with
\* ASR_FALLBACK on the local backend is invoked exactly once for the file, and with
\* ASR_FALLBACK off no local backend is invoked.
C4_Original ==
  RateLimited =>
    IF ASR_FALLBACK
    THEN Len(attempts) = 1 /\ attempts[1].engine \in {"faster-whisper", "openai-whisper"}
    ELSE attempts = <<>>

\* the failures the specification has retried, and those it has not
Retriable == {"http_429", "network"}
NonRetriable == {"http_413", "http_401", "http_other"}

\* C5 as stated: every failure has one class, and no class of a retriable failure
\* (HTTP 429, network error) is the class of a non-retriable one (HTTP 413, 401, other).
C5_Original ==
  \A f1 \in seen_failures, f2 \in seen_failures :
    /\ (f1.failure = f2.failure => f1.cls = f2.cls)
    /\ (f1.failure \in Retriable /\ f2.failure \in NonRetriable => f1.cls # f2.cls)

\* C5: every failed request has one class: HTTP 429 raises GroqRateLimitError, and HTTP
\* 413, HTTP 401, any other HTTP status and a network error (URLError) all raise
\* GroqAPIError, so only the rate limit can be told apart by class; for any other HTTP
\* status the exception carries the code and the first 200 characters of the body.
C5_FailureClasses ==
  /\ \A f \in seen_failures :
       /\ (f.failure = "http_429" => f.cls = "GroqRateLimitError")
       /\ (f.failure \in NonRetriable \cup {"network"} => f.cls = "GroqAPIError")
  /\ \A f1 \in seen_failures, f2 \in seen_failures :
       f1.failure = f2.failure => f1.cls = f2.cls
  /\ (g_pc \in {"finally", "raised"} /\ response.kind = "http"
        /\ response.code \notin {429, 413, 401}
        => /\ g_exc.code = response.code
           /\ g_exc.body = (IF response.body <= 200 THEN response.body ELSE 200))

\* a network error and a rate limit have been raised, and now a status 500 whose body
\* is longer than 200 characters
C5_Witness ==
  /\ {"network", "http_429"} \subseteq {f.failure : f \in seen_failures}
  /\ g_pc = "raised" /\ response.kind = "http" /\ response.code = 500
  /\ response.body = 201

(***************************************************************************)
(* Properties of filter_hallucinations and postprocess_transcription        *)
(***************************************************************************)
\* clean_text leaves the text of every segment as it is
CleanTexts(segments) ==
  \A i \in 1..Len(segments) : clean_text(segments[i].text) = segments[i].text

\* C7 as stated: postprocess_transcription applied to the result it returned returns
\* the same segments and the same text.
C7_Original == f_pc = "done" => post2 = post1

\* C7: filter_hallucinations applied to the list it returned returns that list; and
\* postprocess_transcription applied to the result it returned returns the same
\* segments and text when clean_text leaves the text of every input segment unchanged.
C7_FilterIdempotent ==
  /\ (f_pc = "refiltered" => refiltered = Some(loop.filtered))
  /\ (f_pc = "done" /\ CleanTexts(input) => post2 = post1)

\* "как дела", "", "как дела" postprocessed twice: one segment is left both times
C7_Witness ==
  /\ f_pc = "done" /\ filter_enabled /\ post1 # None
  /\ Texts(input) = <<TxtKakDela, TxtEmpty, TxtKakDela>>
  /\ Texts(post1[1].segments) = <<TxtKakDela>>
  /\ post2 = post1

\* C8: the segments filter_hallucinations has kept are a subsequence of its input: not
\* more than the input, each one a segment of the input, in the order of the input.
C8_Subsequence ==
  LET f == loop.filtered
  IN  /\ Len(f) <= Len(input)
      /\ \A k \in 1..Len(f) : f[k].start \in 1..Len(input) /\ input[f[k].start] = f[k]
      /\ \A k \in 1..(Len(f) - 1) : f[k].start < f[k + 1].start

\* the first and the third of three segments returned
C8_Witness ==
  /\ f_pc = "returned"
  /\ Texts(input) = <<TxtKakDela, TxtEmpty, TxtDa>>
  /\ Texts(loop.filtered) = <<TxtKakDela, TxtDa>>

\* the loop has just decided segment idx - 1
JustDecided == f_pc = "loop" /\ idx > 1

\* the segment just decided is the last one of filtered
JustKept == loop.filtered # <<>> /\ loop.filtered[Len(loop.filtered)].start = idx - 1

\* the drop rules of the specification: the text is empty or only whitespace
Blank(text) == \A i \in 1..Len(text) : IsSpace(text[i])

\* ... it matches one of the artifact patterns, letter case ignored
MatchesArtifact(text) == MatchesPattern(strip(text))

\* ... it has three or more words and they are all the same word
SameWords(text) ==
  LET words == split(text)
  IN  Len(words) >= 3 /\ \A i \in 1..Len(words) : words[i] = words[1]

\* ... it has three or more words and they are the same word but for letter case
SameWordsIgnoringCase(text) ==
  LET words == split(text)
  IN  Len(words) >= 3 /\ \A i \in 1..Len(words) : lower(words[i]) = lower(words[1])

\* C9 as stated: a segment is dropped when its text is blank, matches an artifact
\* pattern or is three or more identical words, and kept when none of these holds and
\* it is not a repeat.
C9_Original ==
  JustDecided =>
    LET text == input[idx - 1].text
        rule == Blank(text) \/ MatchesArtifact(text) \/ SameWords(text)
    IN  /\ (rule => ~JustKept)
        /\ (~rule /\ decisions[idx - 1] # "repeat" => JustKept)

\* C9: a segment is dropped when its text is blank, matches an artifact pattern (case
\* ignored) or is three or more words that are identical when letter case is ignored,
\* and kept when none of these holds and it is not a repeat; of "Субтитры от
\* Amara.org", "привет привет привет", "как дела" only "как дела" is returned.
C9_DropRules ==
  /\ JustDecided =>
       LET text == input[idx - 1].text
           rule == Blank(text) \/ MatchesArtifact(text) \/ SameWordsIgnoringCase(text)
       IN  /\ (rule => ~JustKept /\ decisions[idx - 1] = "hallucination")
           /\ (~rule /\ decisions[idx - 1] # "repeat" => JustKept)
  /\ (f_pc = "returned" /\ Texts(input) = <<TxtAmara, TxtPrivet3, TxtKakDela>>
        => Texts(loop.filtered) = <<TxtKakDela>>)

\* "Да да да" has just been dropped
C9_Witness ==
  /\ JustDecided /\ input[idx - 1].text = TxtDaDaDa
  /\ ~JustKept /\ decisions[idx - 1] = "hallucination"

\* the segments kept before segment i
KeptBefore(i) == {j \in 1..(i - 1) : decisions[j] = "kept"}

\* the texts of the last k = 3 segments kept before segment i
Window(i) ==
  {input[j].text : j \in {j \in KeptBefore(i) :
                            Cardinality({k \in KeptBefore(i) : k > j}) < 3}}

\* trimmed and lower-cased
Normalized(text) == lower(strip(text))

\* equal, or one a substring of the other with length(shorter)/length(longer) >= 0.9
NearDuplicate(a, b) ==
  \/ a = b
  \/ /\ Contains(a, b) \/ Contains(b, a)
     /\ IF Len(a) <= Len(b) THEN 10 * Len(a) >= 9 * Len(b) ELSE 10 * Len(b) >= 9 * Len(a)

\* the segment just decided repeats one of the window
RepeatsWindow ==
  \E w \in Window(idx - 1) :
    NearDuplicate(Normalized(input[idx - 1].text), Normalized(w))

\* C10 as stated: with check_repeats, a segment that is no hallucination and whose
\* text is not empty is dropped as a repeat exactly when its normalized text equals,
\* or nearly, one of the last three kept texts.
C10_Original ==
  (JustDecided /\ check_repeats /\ decisions[idx - 1] # "hallucination")
    => (decisions[idx - 1] = "repeat" <=> RepeatsWindow)

\* C10: with check_repeats, a segment that is no hallucination is dropped as a repeat
\* exactly when its normalized text has at least 5 characters and equals one of the
\* last three kept texts, or is a substring of one or has one as a substring with
\* length(shorter)/length(longer) >= 0.9; a shorter text is never dropped as a repeat.
C10_RepeatRule ==
  (JustDecided /\ check_repeats /\ decisions[idx - 1] # "hallucination")
    => /\ decisions[idx - 1] = "repeat"
            <=> (Len(Normalized(input[idx - 1].text)) >= 5 /\ RepeatsWindow)
       /\ (decisions[idx - 1] = "repeat" <=> ~JustKept)

\* "hello world", "да", "да" kept, and "Hello World!" dropped as a repeat of the first
C10_Witness ==
  /\ JustDecided /\ check_repeats
  /\ Texts(input) = <<TxtHello, TxtDa, TxtDa, TxtHelloBang>>
  /\ decisions = <<"kept", "kept", "kept", "repeat">>
  /\ Texts(loop.filtered) = <<TxtHello, TxtDa, TxtDa>>

\* the call of transcribe is over: it has returned or raised
GroqOver == g_pc \in {"returned", "raised"}

\* C14: when transcribe has returned or raised, the temporary upload file of
\* _prepare_audio does not exist.
C14_Original == GroqOver => temp_file = NoFileInfo

\* C15 as stated: no request carries a payload above GROQ_MAX_FILE_SIZE.
C15_Original ==
  \A i \in 1..Len(requests) : requests[i].size <= GROQ_MAX_FILE_SIZE

\* C15: the input is sent as it is only when it is mp3, m4a or webm and within
\* GROQ_MAX_FILE_SIZE; otherwise it is transcoded at 64k and that file is sent when it
\* is within the ceiling; when it is not, the file of a second transcode at 32k is
\* sent without its size being looked at, and when a transcode fails the input is sent
\* as it is, whatever its size. A call with an API key always sends one request.
C15_PayloadCeiling ==
  /\ \A i \in 1..Len(requests) :
       LET u == requests[i]
       IN  /\ u.how \in {"as_is", "64k", "32k", "unconverted"}
           /\ (u.how = "as_is" =>
                 /\ u.path = "audio" /\ u.size <= GROQ_MAX_FILE_SIZE
                 /\ audio.suffix \in {".mp3", ".m4a", ".webm"})
           /\ (u.how = "64k" => u.path = "temp" /\ u.size <= GROQ_MAX_FILE_SIZE)
           /\ (u.how = "32k" => u.path = "temp")
           /\ (u.how = "unconverted" => u.path = "audio" /\ u.size = audio.size)
  /\ (g_pc = "finally" \/ (GroqOver /\ g_exc.msg # "no_key") => Len(requests) = 1)

\* a file of the second transcode above the ceiling was sent, and the API answered 413
C15_Witness ==
  /\ g_pc = "raised" /\ Len(requests) = 1
  /\ requests[1].how = "32k" /\ requests[1].size > GROQ_MAX_FILE_SIZE
  /\ response.kind = "http" /\ response.code = 413
(***************************************************************************)
(* Properties of the results of the backends                                *)
(***************************************************************************)
\* the texts of the segments of a result, in order
SegmentTexts(r) == [i \in 1..Len(r.segments) |-> r.segments[i].text]

\* the texts that are not the empty string
NonEmptyTexts(texts) == SelectSeq(texts, LAMBDA t : t # <<>>)

\* the text rebuilt from the segments: the non-empty texts joined by single spaces,
\* whitespace runs collapsed and the ends trimmed
Reconstructed(r) == clean_text(join(<<32>>, NonEmptyTexts(SegmentTexts(r))))

\* C11 as stated: the text of every result of every backend is the normalized
\* single-space join of its non-empty segment texts.
C11_Original ==
  /\ \A n \in 1..Len(attempts) : Returned(n) => ResultOf(n).text = Reconstructed(ResultOf(n))
  /\ g_result # None => g_result[1].text = Reconstructed(g_result[1])

\* C11: the text of a result of _run_asr_once is the single-space join of all its
\* segment texts, empty ones included, with only the two ends trimmed; that of
\* WhisperXTranscriber.transcribe is the single-space join of all its segment texts,
\* each trimmed; neither collapses inner whitespace. The text of a result of
\* GroqTranscriber.transcribe is the text field of the API response, trimmed, and its
\* segments are those of the response: the text is not derived from the segments.
C11_TextOfResult ==
  /\ \A n \in 1..Len(attempts) :
       Returned(n) =>
         LET r == ResultOf(n) IN
         IF attempts[n].engine = "whisperx"
         THEN r.text = join(<<32>>, [i \in 1..Len(r.segments) |-> strip(r.segments[i].text)])
         ELSE r.text = strip(join(<<32>>, SegmentTexts(r)))
  /\ g_result # None =>
       /\ g_result[1].text = strip(response.text)
       /\ SegmentTexts(g_result[1]) =
            [i \in 1..Len(response.segments) |-> strip(response.segments[i])]

\* a pass of a local engine returned two segments whose joined text keeps two spaces
\* in a row
C11_Witness ==
  /\ LocalEngine /\ Returned(1)
  /\ SegmentTexts(ResultOf(1)) = <<TxtSpDa, TxtSpDa>>
  /\ ResultOf(1).text = <<1076, 1072, 32, 32, 1076, 1072>>
  /\ ResultOf(1).text # Reconstructed(ResultOf(1))

(***************************************************************************)
(* Properties of transcribe_files and of the files of _transcribe_single    *)
(***************************************************************************)
\* C12: once transcribe_files has started on its files, no failure of a file ends the
\* call before the last file: the call never ends by an exception, and when it ends
\* every file has been visited and counted as a success or as a failure.
C12_Original ==
  /\ pc = "raised" => file_idx = 0
  /\ pc = "done" => file_idx = files /\ success \in 0..files

\* _transcribe_single is over for the current file: it returned or it raised
SingleOver == pc = "return" \/ (pc = "raised" /\ file_idx >= 1)

Kinds == [i \in 1..Len(outputs) |-> outputs[i].kind]

\* every artifact of the current file was written to its end
AllComplete == \A i \in 1..Len(outputs) : outputs[i].complete

\* text, JSON and SRT all exist for the current file, each whole
FullSet == Kinds = <<"txt", "json", "srt">> /\ AllComplete

\* C16 as stated: no artifact exists while the passes of the file are running, and
\* when _transcribe_single returns or raises either all three artifacts exist or none.
C16_Original ==
  /\ pc \in {"asr", "asr_vad", "check_result"} => outputs = <<>>
  /\ SingleOver => (outputs = <<>> \/ FullSet)

\* C16: no artifact of a file is written before the engine passes of the file are over
\* and have returned a result with non-blank text. When _transcribe_single returns
\* True the text, JSON and SRT of the file all exist; when it returns False none does.
\* The three are written one after the other, text first, then JSON, then SRT: when a
\* save raises, _transcribe_single raises and the artifacts written before stay, the
\* one being written possibly cut short, so a partial set is left; an exception of an
\* engine pass leaves none.
C16_ArtifactsAfterAsr ==
  /\ pc \in {"check_file", "convert", "asr", "asr_vad", "check_result"} => outputs = <<>>
  /\ outputs # <<>> =>
       /\ attempts # <<>> /\ Returned(Len(attempts))
       /\ result = attempts[Len(attempts)].returned
       /\ strip(result[1].text) # <<>>
  /\ pc = "return" => IF outcome = "saved" THEN FullSet ELSE outputs = <<>>
  /\ (pc = "raised" /\ file_idx >= 1) =>
       /\ exc = "ASRError" => outputs = <<>>
       /\ exc = "OSError" =>
            /\ Len(outputs) <= 3
            /\ Kinds = SubSeq(<<"txt", "json", "srt">>, 1, Len(outputs))
            /\ \A i \in 1..(Len(outputs) - 1) : outputs[i].complete
            /\ ~FullSet

\* _transcribe_single raised out of _save_json: the text file is whole, the JSON file
\* is cut short and there is no SRT
C16_Witness ==
  /\ pc = "raised" /\ exc = "OSError"
  /\ Kinds = <<"txt", "json">> /\ outputs[1].complete /\ ~outputs[2].complete

(***************************************************************************)
(* Properties of the transcriber: its model, diarization, the recording     *)
(***************************************************************************)
\* C17: on one transcriber the model is loaded at most once, over all files and all
\* transcribe_files calls: with model_loaded set _load_model loads nothing; and an
\* engine pass is only ever started or made with the model loaded.
C17_LoadedOnce ==
  /\ loads <= 1
  /\ model_loaded <=> loads = 1
  /\ (pc \in {"asr", "asr_vad"} \/ attempts # <<>>) => model_loaded

\* a further transcribe_files call has come to _load_model on a transcriber whose
\* model an earlier call loaded
C17_Witness == pc = "load_model" /\ model_loaded /\ loads = 1

\* the n-th invocation was WhisperX with diarization requested and unable to run
DiarizationUnable(n) ==
  /\ attempts[n].engine = "whisperx"
  /\ attempts[n].diarization \in {"no_token", "failed"}

\* C18: when diarization is requested of WhisperXTranscriber.transcribe and HF_TOKEN is
\* not set, or the diarization stage raises, the call still returns its transcription,
\* with no speakers and no segment labelled: nothing is raised to the caller.
C18_DiarizationDowngrades ==
  \A n \in 1..Len(attempts) :
    DiarizationUnable(n) =>
      /\ diarize
      /\ attempts[n].diarization = "no_token" <=> ~hf_token
      /\ Returned(n)
      /\ ResultOf(n).speakers = <<>>
      /\ \A i \in 1..Len(ResultOf(n).segments) : ResultOf(n).segments[i].speaker = ""

\* the diarization stage raised with the token set, and the file was transcribed and
\* saved without speakers
C18_Witness ==
  /\ pc = "return" /\ outcome = "saved" /\ hf_token
  /\ Len(attempts) = 1 /\ attempts[1].diarization = "failed"
  /\ ResultOf(1).text = <<1076, 1072>> /\ ResultOf(1).speakers = <<>>

\* C19: with diarization requested and a configured backend other than whisperx, the
\* backend of the transcriber is whisperx when whisperx is installed, and otherwise
\* diarization is off and the backend is the configured one, the transcriber being
\* constructed all the same; so a transcriber with diarization on has backend whisperx.
C19_DiarizeNeedsWhisperx ==
  /\ (diarize_arg /\ ASR_BACKEND # "whisperx") =>
       IF HAS_WHISPERX
       THEN backend = "whisperx" /\ diarize
       ELSE backend = ASR_BACKEND /\ ~diarize
  /\ diarize => backend = "whisperx"
  /\ ~diarize_arg => (backend = ASR_BACKEND /\ ~diarize)

\* a transcriber asked to diarize without whisperx installed kept faster-whisper and
\* saved a file with it
C19_Witness ==
  /\ diarize_arg /\ ~HAS_WHISPERX /\ ASR_BACKEND = "faster" /\ backend = "faster"
  /\ ~diarize /\ pc = "return" /\ outcome = "saved"
  /\ attempts[1].engine = "faster-whisper"

\* _transcribe_single has found the recording of the current file
RecordingFound ==
  /\ file_idx >= 1 /\ pc \notin {"unused", "check_file"} /\ outcome # "not_found"

\* C20: the recording given to _transcribe_single or to GroqTranscriber.transcribe
\* is there, as it was, at every step and on every outcome: what these write and
\* remove is the safe WAV or the temporary upload they made.
C20_RecordingSurvives ==
  /\ RecordingFound => fs.audio = "recording"
  /\ g_pc \notin {"unused", "idle"} => audio_exists

\* _transcribe_single raised out of an engine pass: the safe WAV is removed and the
\* recording is there
C20_Witness ==
  /\ pc = "raised" /\ exc = "ASRError" /\ file_idx = 1
  /\ fs = [audio |-> "recording", safe |-> "absent"]

(***************************************************************************)
(* Properties of the checks made before any work, and of the two passes     *)
(***************************************************************************)
\* C24: a GroqTranscriber without an API key never converts audio, makes no temporary
\* file and sends no request: transcribe raises GroqAPIError first; and a transcriber
\* whose backend is whisperx with whisperx not installed never gets past _load_model:
\* transcribe_files raises ImportError with no file converted and no pass made.
C24_CheckedBeforeWork ==
  /\ (g_pc # "unused" /\ ~api_key) =>
       /\ g_pc \in {"idle", "raised"}
       /\ upload = NoUpload /\ temp_file = NoFileInfo /\ requests = <<>>
       /\ g_pc = "raised" => (g_exc.cls = "GroqAPIError" /\ g_exc.msg = "no_key")
  /\ (pc # "unused" /\ backend = "whisperx" /\ ~HAS_WHISPERX) =>
       /\ pc \in {"init", "load_model", "raised"}
       /\ file_idx = 0 /\ fs = NoFiles /\ attempts = <<>> /\ ~model_loaded
       /\ pc = "raised" => exc = "ImportError"

\* transcribe was called a second time without a key, on a wav over the ceiling, and
\* raised
C24_Witness ==
  /\ ~api_key /\ calls = 2 /\ g_pc = "raised" /\ g_exc.msg = "no_key"
  /\ audio = [suffix |-> ".wav", size |-> GROQ_MAX_FILE_SIZE + 1]

\* C26: with a local engine, faster-whisper or openai-whisper, the first invocation
\* of the file runs the engine without VAD and with the forced language, or with
\* auto-detection when none is forced, and the second invocation, when there is one,
\* runs the engine with VAD and with the forced language, or 'ru' when none is forced.
C26_Original ==
  LocalEngine =>
    /\ Len(attempts) >= 1 =>
         /\ ~attempts[1].vad_filter
         /\ attempts[1].language = (IF FORCE_RU THEN "ru" ELSE "None")
    /\ Len(attempts) >= 2 =>
         /\ attempts[2].vad_filter
         /\ attempts[2].language = "ru"

(***************************************************************************)
(* Properties of the window of filter_hallucinations                        *)
(***************************************************************************)
\* the indices of the segments kept so far, in order
KeptSoFar ==
  SelectSeq([i \in 1..Len(decisions) |-> i], LAMBDA i : decisions[i] = "kept")

\* C27: at every point of the loop of filter_hallucinations the window holds the
\* (trimmed) texts of the last min(3, number kept so far) kept segments, oldest first:
\* never more than 3, never the text of a dropped segment, the oldest gone first.
C27_WindowOfKept ==
  LET n == Len(KeptSoFar)
      m == IF n < 3 THEN n ELSE 3
  IN  /\ Len(loop.previous_texts) <= 3
      /\ loop.previous_texts = [j \in 1..m |-> strip(input[KeptSoFar[n - m + j]].text)]

\* four segments kept and one dropped between them: the first kept text has left the
\* window
C27_Witness ==
  /\ JustDecided /\ idx = 6
  /\ Texts(input) = <<TxtDa, TxtKakDela, TxtEmpty, TxtDa, TxtKakDela>>
  /\ decisions = <<"kept", "kept", "hallucination", "kept", "kept">>
  /\ loop.previous_texts = <<TxtKakDela, TxtDa, TxtKakDela>>

(***************************************************************************)
(* C21: the text grouped by speaker                                         *)
(***************************************************************************)
Grouping == call.fn \in {"_save_txt_diarized", "format_segments_with_speakers"} /\ call.done

\* the label segments without a speaker are given
DefaultSpeaker == IF call.fn = "_save_txt_diarized" THEN "SPEAKER" ELSE "UNKNOWN"

\* where the maximal runs of one label begin in segs
RunStarts(segs, default) ==
  {i \in 1..Len(segs) :
     i = 1 \/ SpeakerOf(segs[i], default) # SpeakerOf(segs[i - 1], default)}

\* the n-th run of segs: its first and its last segment
Run(segs, default, n) ==
  LET starts == RunStarts(segs, default)
      first == CHOOSE i \in starts : Cardinality({j \in starts : j <= i}) = n
      last == CHOOSE j \in first..Len(segs) :
                /\ \A k \in first..j : k \notin starts \/ k = first
                /\ j = Len(segs) \/ j + 1 \in starts
  IN  [first |-> first, last |-> last]

\* one block per maximal run of segs, with the start of its first segment as MM:SS,
\* its label and its texts, trimmed, joined by single spaces
BlocksOfRuns(blocks, segs, default) ==
  /\ Len(blocks) = Cardinality(RunStarts(segs, default))
  /\ \A n \in 1..Len(blocks) :
       LET run == Run(segs, default, n)
           minutes == segs[run.first].start \div 60
           seconds == segs[run.first].start % 60
       IN  /\ blocks[n].speaker = SpeakerOf(segs[run.first], default)
           /\ blocks[n].ts = <<48 + (minutes \div 10), 48 + (minutes % 10), 58,
                               48 + (seconds \div 10), 48 + (seconds % 10)>>
           /\ blocks[n].text = join(<<32>>, [k \in 1..(run.last - run.first + 1) |->
                                               strip(segs[run.first + k - 1].text)])

IsNonBlank(seg) == strip(seg.text) # <<>>

\* C21 (as stated): the speaker-grouped text has exactly one block per maximal run of
\* consecutive segments with the same speaker label, with the start of the run's first
\* segment, the label and the run's texts joined by single spaces.
C21_Original == Grouping => BlocksOfRuns(call.out.blocks, call.args, DefaultSpeaker)

\* C21 (amended): segments whose text is blank are passed over and do not end a run; of
\* the others there is exactly one block per maximal run of consecutive segments with the
\* same label, in order, with the start of the run's first segment as MM:SS, the label
\* and the run's trimmed texts joined by single spaces; a segment without a label has
\* the label SPEAKER (UNKNOWN in format_segments_with_speakers); the text written is
\* the blocks, "[MM:SS] label:" before each, with an empty line between two of them.
C21_BlocksOfNonBlankRuns ==
  Grouping =>
    /\ BlocksOfRuns(call.out.blocks, SelectSeq(call.args, IsNonBlank), DefaultSpeaker)
    /\ call.out.content =
         join(<<10, 10>>,
              [n \in 1..Len(call.out.blocks) |->
                 <<91>> \o call.out.blocks[n].ts \o <<93, 32>>
                   \o LabelText(call.out.blocks[n].speaker) \o <<58>>
                   \o (IF call.fn = "_save_txt_diarized" THEN <<10>> ELSE <<32>>)
                   \o call.out.blocks[n].text])

\* segments hi/A, blank/B, yo/A from 00:58 on give the one block A "hi yo"
C21_Witness ==
  /\ Grouping /\ call.fn = "_save_txt_diarized"
  /\ call.args = <<[start |-> 58, text |-> TxtHi, speaker |-> "A"],
                   [start |-> 60, text |-> TxtBlank, speaker |-> "B"],
                   [start |-> 62, text |-> TxtSpYo, speaker |-> "A"]>>
  /\ call.out.blocks = <<[ts |-> <<48, 48, 58, 53, 56>>, speaker |-> "A",
                          text |-> <<104, 105, 32, 121, 111>>]>>

(***************************************************************************)
(* C23: format_timestamp_srt                                                *)
(***************************************************************************)
\* HH:MM:SS,mmm of a time of ms milliseconds
Rendered(ms) ==
  ZeroPadded(Decimal(ms \div 3600000), 2) \o <<58>>
    \o ZeroPadded(Decimal((ms \div 60000) % 60), 2) \o <<58>>
    \o ZeroPadded(Decimal((ms \div 1000) % 60), 2) \o <<44>>
    \o ZeroPadded(Decimal(ms % 1000), 3)

\* C23 (as stated): format_timestamp_srt renders a non-negative time of whole
\* milliseconds as HH:MM:SS,mmm, hours being floor(t / 3600 s), minutes and seconds in
\* 0..59 and milliseconds in 0..999, padded with zeros to 2, 2, 2 and 3 digits.
C23_Original ==
  (call.fn = "format_timestamp_srt" /\ call.done) => call.out = Rendered(call.args)

(***************************************************************************)
(* C25: the summarize argument of the transcribe command                    *)
(***************************************************************************)
\* C25: the summarize value passed to EnhancedTranscriber is True only if --summarize is
\* given, --no-summarize is not and the credential is available; False if --no-summarize
\* is given or if summarization would run (by flag or by AUTO_SUMMARIZE) and the
\* credential is missing; None otherwise.
C25_SummarizePassed ==
  (call.fn = "transcribe" /\ call.done) =>
    LET a == call.args
        by_flag == a.summarize /\ ~a.no_summarize
        by_auto == ~a.summarize /\ ~a.no_summarize /\ a.AUTO_SUMMARIZE
    IN  /\ call.out = "True" <=> (by_flag /\ a.available)
        /\ call.out = "False" <=> (a.no_summarize \/ ((by_flag \/ by_auto) /\ ~a.available))
        /\ call.out = "None" <=> ~(by_flag /\ a.available)
                                  /\ ~(a.no_summarize \/ ((by_flag \/ by_auto) /\ ~a.available))

\* both flags given, the credential there: False is passed
C25_Witness ==
  /\ call.fn = "transcribe" /\ call.done
  /\ call.args.summarize /\ call.args.no_summarize /\ call.args.available
  /\ call.out = "False"

(***************************************************************************)
(* C22: the files of a successful run                                       *)
(***************************************************************************)
Succeeded == pc = "return" /\ outcome = "saved"

\* a segment of the result carries a speaker label
SomeLabelled == \E i \in 1..Len(result[1].segments) : result[1].segments[i].speaker # ""

\* the complete artifacts of the current file that are of a kind, grouped by speaker or not
Written(kind, diarized) ==
  {i \in 1..Len(outputs) :
     outputs[i].kind = kind /\ outputs[i].diarized = diarized /\ outputs[i].complete}

\* C22 (as stated): every successful file run persists a plain-text transcript whose
\* content is the text field of the result, a JSON record and a subtitle file, and a
\* speaker-grouped text in addition exactly when a segment carries a speaker label.
C22_Original ==
  Succeeded =>
    /\ \E i \in Written("txt", FALSE) : outputs[i].text = result[1].text
    /\ \E i \in 1..Len(outputs) : outputs[i].kind = "json"
    /\ \E i \in 1..Len(outputs) : outputs[i].kind = "srt"
    /\ Written("txt", TRUE) # {} <=> SomeLabelled

\* C22 (amended): every successful file run persists exactly three files, a text file,
\* a JSON record and a subtitle file. The text file is the speaker-grouped text when a
\* segment of the result carries a speaker label, and then no plain-text transcript is
\* written; otherwise it is the plain transcript, whose content is the text field of the
\* result. The JSON record holds the text field and the segments in either case.
C22_OneTextFile ==
  Succeeded =>
    /\ FullSet
    /\ outputs[1].diarized = SomeLabelled
    /\ SomeLabelled =>
         /\ outputs[1].text = BlocksText(GroupBlocks(result[1].segments, "SPEAKER"), <<10>>)
         /\ Written("txt", FALSE) = {}
    /\ ~SomeLabelled => outputs[1].text = result[1].text
    /\ outputs[2].text = result[1].text /\ outputs[2].segments = result[1].segments
    /\ Len(outputs[3].segments) = Len(result[1].segments)

\* a run of whisperx with one labelled segment: the text file begins "[00:01] SPEAKER_00:"
\* and is not the text of the result
C22_Witness ==
  /\ Succeeded /\ SomeLabelled
  /\ Len(outputs[1].text) > 19
  /\ SubSeq(outputs[1].text, 1, 19)
       = <<91, 48, 48, 58, 48, 49, 93, 32, 83, 80, 69, 65, 75, 69, 82, 95, 48, 48, 58>>
  /\ outputs[1].text # result[1].text

(***************************************************************************)
(* C28: the ffmpeg process and the monitor when record returns              *)
(***************************************************************************)
\* C28 (as stated): when MeetingRecorder.record returns, on any path (the process ended
\* by itself, Ctrl+C, an error during recording), the ffmpeg process it started has
\* terminated and the audio level monitor has been stopped; after Ctrl+C the recorded
\* file is still validated, and returned if it is valid.
C28_Original ==
  rec.pc = "returned" =>
    /\ rec.process # "running"
    /\ rec.monitor # "started"
    /\ (rec.interrupted /\ rec.file = "valid") => rec.returned = "path"

(***************************************************************************)
(* C29: the threads of AudioLevelMonitor                                    *)
(***************************************************************************)
\* C29 (as stated): under any interleaving of start() and stop() with the monitor
\* thread, at most one monitor thread is live at any time, start() while already running
\* starts no second thread, a start() that returns True leaves a monitor thread running,
\* and after stop() has returned no monitor thread is still rendering or holding the
\* input stream.
C29_Original ==
  /\ Cardinality({t \in Threads : Alive(t)}) <= 1
  /\ (mon.last.call = "start" /\ mon.last.was_running) => ~mon.last.spawned
  /\ (mon.last.call = "start" /\ mon.last.returned) => mon.last.alive
  /\ (mon.last.call = "stop" /\ mon.pc = "idle") => \A t \in Threads : mon.threads[t] # "looping"

(***************************************************************************)
(* C30: the alignment model kept by WhisperXTranscriber                     *)
(***************************************************************************)
\* C30: across any sequence of transcribe calls, files of varying detected languages and
\* calls that fail included, the cached alignment model is always the one of
\* _align_language, the alignment of a file always uses a model loaded for the detected
\* language of that file, and the alignment model is loaded again only when the detected
\* language differs from the cached one.
C30_AlignCache ==
  /\ wx.align_model = wx.align_language
  /\ wx.aligned_with # "None" =>
       wx.aligned_with = wx.detected_language /\ wx.detected_language \in Languages
  /\ wx.pc = "align" => wx.align_model = wx.detected_language
  /\ wx.loaded_over # "no_load" => wx.loaded_over # wx.detected_language

\* a call for an English file after one for a Russian file: the model is loaded over
\* the Russian one and the file aligned with it
C30_Witness ==
  /\ wx.pc = "idle" /\ wx.outcome = "returned"
  /\ wx.loaded_over = "ru" /\ wx.detected_language = "en" /\ wx.aligned_with = "en"

====
